---- MODULE Spec2Model ----
(***************************************************************************)
(* Worker execution model of the Flovyn TypeScript SDK.                    *)
(*                                                                         *)
(*   Spec     the activation poller (WorkflowWorker and TaskWorker): start, *)
(*            stop, the poll loop and the active counter.                  *)
(*   SpecDispatch  the dispatcher: handleActivation followed through its   *)
(*            awaits, and the completion reports it sends to the engine.   *)
(*   SpecStop  the dispatcher of a worker that is stopped and started      *)
(*            again while it handles activations.                          *)
(*   SpecLoop  the poll loop of a worker whose maxConcurrent is above one; *)
(*            SpecLoopFair adds that pending timeouts fire.               *)
(*   SpecCtx  one workflow activation seen from inside the handler: the    *)
(*            WorkflowContextImpl primitives, the task / child-workflow    *)
(*            handles, the native command buffer and the report the        *)
(*            dispatcher derives from the handler outcome; the handler may *)
(*            run again in a later activation against the same history.    *)
(*   SpecSeq  a handler that awaits its operations one after another,      *)
(*            followed over the activations of one execution.             *)
(*   SpecClient  FlovynClient: the registry, start, stop and the calls     *)
(*            that need a connected client.                                *)
(*   SpecShutdown  FlovynClient.stop() waiting for the two workers to     *)
(*            drain, with the timeout of its waiting loop.                *)
(*   SpecTask  one task activation seen from inside the handler: the       *)
(*            TaskContextImpl calls, its callbacks and the report the      *)
(*            task dispatcher derives from the handler outcome.            *)
(*   SpecHandle  query, signal and cancel on a workflow handle obtained    *)
(*            inside a workflow or by an external client.                  *)
(*   SpecMock  MockWorkflowContext of the testing package: queueing mocked *)
(*            task results and handing them out.                           *)
(***************************************************************************)
EXTENDS Integers, Sequences, FiniteSets, TLC

\* ------------------------------------------------------------------------
\* Bounds of the model
\* ------------------------------------------------------------------------
\* activations one worker accepts in a behaviour
MaxActivations == 2
\* poll chains (native polls in flight plus pending poll timers) of a worker
MaxChains == 2
\* configured maxConcurrent of the worker under analysis
maxConcurrent == 1

\* ------------------------------------------------------------------------
\* Values
\* ------------------------------------------------------------------------
\* a field that the completion object does not carry
Absent == <<>>

\* handler return values and error messages
Values == {"v1"}
Messages == {"m1"}
\* command lists a WorkflowSuspended thrown by a handler can carry
SuspendedCommands == {<<>>, <<"c1">>}

\* JSON encoding of a value (packages/sdk/src/serde.ts)
serialize(v) == <<"json", v>>

\* JSON decoding
deserialize(s) == s[2]

VARIABLES
  workerKind,        \* "workflow" (WorkflowWorker) or "task" (TaskWorker)
  running,           \* this.running
  activeExecutions,  \* this.activeExecutions
  pollTimer,         \* this.pollTimer: "null", "pending" (handle of a timeout
                     \* not fired yet) or "fired" (stale handle)
  timers,            \* number of setTimeout callbacks not fired yet
  pollsInFlight,     \* poll() invocations awaiting the native poll call
  pollTick,          \* parity of the number of poll() invocations so far
  acts,              \* accepted activations, in order of acceptance: each a
                     \* handleActivation invocation with its position
  prog,              \* the workflow handler's code: a sequence of instructions
  ip,                \* index of the handler's next instruction
  hstate,            \* "idle", "running", "returned", "threw" or "reported"
  hout,              \* outcome of run(ctx, input)
  objs,              \* handles and promises the handler holds, by creation
  buf,               \* command buffer of the native context
  emitted,           \* every command emitted during the activation
  raised,            \* WorkflowSuspended signals constructed, in order
  caught,            \* errors the handler's catch blocks have received
  engineSchedCalls,  \* scheduleTask / scheduleChildWorkflow calls made
  ctxReports,        \* completions the dispatcher has sent for the activation
  answers,           \* what the engine answered to each object-creating call
  engineNow,         \* the engine's present state of each of these operations
  yields,            \* what result() / an awaited primitive has yielded, in order
  ops,               \* engine operations issued in this activation, in order
  childSeq,          \* this._childWorkflowSeq
  prevRun,           \* operations and answers of the earlier activation, if any
  started,           \* FlovynClient.started
  nativeClient,      \* FlovynClient.nativeClient: 0 (null) or the client created
  clientWorkers,     \* FlovynClient.workflowWorker / taskWorker: 0 (null) or
                     \* the index in `pairs` of the pair the fields refer to
  registeredWorkflows, \* FlovynClient.registeredWorkflows: name -> definition
  registeredTasks,   \* FlovynClient.registeredTasks
  firstRegistered,   \* per map and name, the first definition registered
  startsInFlight,    \* start() calls awaiting nativeWorker.register()
  stopsInFlight,     \* stop() calls waiting for active work
  pairs,             \* worker pairs created by start(), in creation order
  lastCall,          \* the latest call on the client and what it did
  tOwner,            \* who constructed the TaskContextImpl: "worker"
                     \* (TaskWorker.handleActivation), "direct" or "none"
  tWired,            \* which of onProgress / onHeartbeat / onStream the
                     \* constructor was given
  tCancelled,        \* TaskContextImpl._cancelled
  tProgress,         \* TaskContextImpl._progress, in tenths
  tLastHeartbeat,    \* TaskContextImpl._lastHeartbeat
  tStreamEvents,     \* TaskContextImpl._streamEvents
  tProg,             \* the task handler's calls on its context, in order
  tIp,               \* index of the task handler's next call
  tState,            \* "idle", "running", "returned", "threw" or "reported"
  tOut,              \* outcome of the task handler's run(ctx, input)
  tLast,             \* the latest call on the context and what it did
  tCallbacks,        \* invocations of the constructor's callbacks, in order
  tSucceeded,        \* reportProgress / heartbeat calls that returned normally
  tCancelRequested,  \* the engine holds a cancellation request for the task
  tReports,          \* completions the task dispatcher has sent
  hOrigin,           \* where a workflow handle was obtained: "child"
                     \* (ctx.scheduleWorkflow), "client" (startWorkflow) or "none"
  hBuf,              \* command buffer of the workflow context of a child handle
  hEngineCalls,      \* engine calls made through the handle's client
  hOps,              \* query / signal / cancel calls on the handle, in order
  mTaskResults,      \* MockWorkflowContext._taskResults
  executedTasks,     \* MockWorkflowContext.executedTasks
  mQueued,           \* per task name, every result given to mockTaskResult
  mLast,             \* the latest call on the mock context and what it did
  mOps,              \* calls made on the mock context
  sPc,               \* where a client.stop() call is: "idle", "sleep", "returned"
  sElapsed,          \* Date.now() - startTime of that call, in sleep intervals
  sActive,           \* activeExecutions of the client's two workers
  sPolls,            \* native poll calls in flight of the two workers
  sExit              \* how the waiting loop of stop() ended

workerVars == <<workerKind, running, activeExecutions, pollTimer, timers,
                pollsInFlight, pollTick, acts>>

ctxVars == <<prog, ip, hstate, hout, objs, buf, emitted, raised, caught,
             engineSchedCalls, ctxReports, answers, engineNow, yields, ops,
             childSeq, prevRun>>

clientVars == <<started, nativeClient, clientWorkers, registeredWorkflows,
                registeredTasks, firstRegistered, startsInFlight, stopsInFlight,
                pairs, lastCall>>

taskCtxVars == <<tOwner, tWired, tCancelled, tProgress, tLastHeartbeat,
                 tStreamEvents, tProg, tIp, tState, tOut, tLast, tCallbacks,
                 tSucceeded, tCancelRequested, tReports>>

handleVars == <<hOrigin, hBuf, hEngineCalls, hOps>>

mockVars == <<mTaskResults, executedTasks, mQueued, mLast, mOps>>

shutdownVars == <<sPc, sElapsed, sActive, sPolls, sExit>>

vars == <<workerKind, running, activeExecutions, pollTimer, timers,
          pollsInFlight, pollTick, acts, prog, ip, hstate, hout, objs, buf, emitted,
          raised, caught, engineSchedCalls, ctxReports, answers, engineNow,
          yields, ops, childSeq, prevRun, started, nativeClient, clientWorkers,
          registeredWorkflows, registeredTasks, firstRegistered, startsInFlight,
          stopsInFlight, pairs, lastCall, tOwner, tWired, tCancelled, tProgress,
          tLastHeartbeat, tStreamEvents, tProg, tIp, tState, tOut, tLast,
          tCallbacks, tSucceeded, tCancelRequested, tReports, hOrigin, hBuf,
          hEngineCalls, hOps, mTaskResults, executedTasks, mQueued, mLast,
          mOps, sPc, sElapsed, sActive, sPolls, sExit>>

\* ------------------------------------------------------------------------
\* Errors thrown inside handleActivation
\* ------------------------------------------------------------------------
NoErr == [type |-> "none", isError |-> FALSE, message |-> "", retryable |-> FALSE,
          commands |-> <<>>, reason |-> <<>>]

Err(t, m) == [type |-> t, isError |-> TRUE, message |-> m, retryable |-> FALSE,
              commands |-> <<>>, reason |-> <<>>]

\* new WorkflowSuspended(message, commands)
WorkflowSuspended(cmds) == [Err("WorkflowSuspended", "m1") EXCEPT !.commands = cmds]

\* the optional reason of a WorkflowCancelled: undefined or a text
Reasons == {Absent, <<"r1">>}

\* new WorkflowCancelled(message, reason)
WorkflowCancelled(m, r) == [Err("WorkflowCancelled", m) EXCEPT !.reason = r]

\* new DeterminismViolation(message)
DeterminismViolation(m) == Err("DeterminismViolation", m)

\* new TaskCancelled(taskExecutionId)
TaskCancelled == Err("TaskCancelled", "m1")

\* new TaskFailed(message, taskExecutionId, retryable)
TaskFailed(m, r) == [Err("TaskFailed", m) EXCEPT !.retryable = r]

\* any other Error instance (also the error of a rejected native call)
OtherError(m) == Err("Error", m)

\* a thrown value that is not an Error instance (throw "text")
NonError(m) == [Err("NonError", m) EXCEPT !.isError = FALSE]

\* what a workflow handler's run() can end with
WorkflowThrows ==
  {WorkflowSuspended(c) : c \in SuspendedCommands}
    \cup {WorkflowCancelled(m, r) : m \in Messages, r \in Reasons}
    \cup {DeterminismViolation(m) : m \in Messages}
    \cup {OtherError(m) : m \in Messages}
    \cup {NonError(m) : m \in Messages}

\* what a task handler's run() can end with
TaskThrows ==
  {TaskCancelled}
    \cup {TaskFailed(m, r) : m \in Messages, r \in BOOLEAN}
    \cup {OtherError(m) : m \in Messages}
    \cup {NonError(m) : m \in Messages}

\* ------------------------------------------------------------------------
\* Completion objects
\* ------------------------------------------------------------------------
Completion(st, out, err, retry, reason, cmds) ==
  [status |-> st, output |-> out, error |-> err, retryable |-> retry,
   reason |-> reason, commands |-> cmds]

\* WorkflowWorker.completeWithSuccess
wfCompleteWithSuccess(result) ==
  Completion("Completed", serialize(result), Absent, Absent, Absent, Absent)

\* WorkflowWorker.completeWithCommands
wfCompleteWithCommands(commands) ==
  Completion("Suspended", Absent, Absent, Absent, Absent, <<commands>>)

\* WorkflowWorker.completeWithFailure: the _retryable argument is not used
wfCompleteWithFailure(error, retryable) ==
  Completion("Failed", Absent, error, Absent, Absent, Absent)

\* WorkflowWorker.completeWithCancellation
wfCompleteWithCancellation(reason) ==
  Completion("Cancelled", Absent, Absent, Absent, <<reason>>, Absent)

\* TaskWorker.completeWithSuccess
taskCompleteWithSuccess(result) ==
  Completion("Completed", serialize(result), Absent, Absent, Absent, Absent)

\* TaskWorker.completeWithFailure
taskCompleteWithFailure(error, retryable) ==
  Completion("Failed", Absent, error, <<retryable>>, Absent, Absent)

\* TaskWorker.completeWithCancellation
taskCompleteWithCancellation ==
  Completion("Cancelled", Absent, Absent, Absent, Absent, Absent)

\* shouldRetry(error) of the task worker
shouldRetry(error) == TRUE

\* catch block of WorkflowWorker.handleActivation: the report for a thrown error
wfCatch(error) ==
  CASE error.type = "WorkflowSuspended" -> wfCompleteWithCommands(error.commands)
    [] error.type = "WorkflowCancelled" -> wfCompleteWithCancellation(error.message)
    [] error.type = "DeterminismViolation" ->
         wfCompleteWithFailure(<<"Determinism violation: ", error.message>>, FALSE)
    [] OTHER -> wfCompleteWithFailure(<<error.message>>, TRUE)

\* a catch block that reports every failure as retryable
taskCatchAlwaysRetry(error) ==
  CASE error.type = "TaskCancelled" -> taskCompleteWithCancellation
    [] OTHER -> taskCompleteWithFailure(<<error.message>>, TRUE)

\* catch block of TaskWorker.handleActivation after the onFailure hook
taskCatch(error) ==
  CASE error.type = "TaskCancelled" -> taskCompleteWithCancellation
    [] error.type = "TaskFailed" ->
         taskCompleteWithFailure(<<error.message>>, error.retryable)
    [] OTHER -> taskCompleteWithFailure(<<error.message>>, shouldRetry(error))

\* the report for an activation whose kind is not registered
unknownKind(kind) ==
  IF kind = "workflow"
    THEN wfCompleteWithFailure(<<"Unknown workflow type">>, FALSE)
    ELSE taskCompleteWithFailure(<<"Unknown task type">>, FALSE)

\* ------------------------------------------------------------------------
\* handleActivation: one invocation per accepted activation
\* ------------------------------------------------------------------------
\* hooks of the registered task definitions (TaskHooks: each is optional)
NoHooks == [onStart |-> FALSE, onSuccess |-> FALSE, onFailure |-> FALSE]

HookConfigs == [onStart : BOOLEAN, onSuccess : BOOLEAN, onFailure : BOOLEAN]

NoOutcome == [kind |-> "none", value |-> "", err |-> NoErr]

Returned(v) == [kind |-> "return", value |-> v, err |-> NoErr]

Threw(e) == [kind |-> "throw", value |-> "", err |-> e]

\* a completion call made on the native worker and what became of it:
\* "inflight", "ok" (delivered, call returned), "late" (delivered, call
\* threw) or "lost" (not delivered, call threw); whileRunning notes
\* this.running at the time of the call
Report(c) == [completion |-> c, fate |-> "inflight", whileRunning |-> running]

\* the native completeWorkflowActivation / completeTask call
completeCall(act, c, nextPc) ==
  [act EXCEPT !.reports = Append(@, Report(c)), !.pc = nextPc]

\* the part of handleActivation before the try block, and the first
\* statements of the try block up to the first await; cancelled is the
\* cancellation flag of the context built (TaskContextImpl._cancelled,
\* WorkflowContextImpl._cancellationRequested), acceptedRunning notes
\* this.running when the activation was accepted
handleActivation(kind, registered, hooks) ==
  LET fresh == [registered |-> registered, hooks |-> hooks, pc |-> "start",
                ctxBuilt |-> FALSE, cancelled |-> FALSE,
                outcome |-> NoOutcome, err |-> NoErr,
                called |-> <<>>, reports |-> <<>>, settled |-> "no",
                acceptedRunning |-> running]
  IN  IF ~registered
        THEN completeCall(fresh, unknownKind(kind), "reportUnknown")
        ELSE IF kind = "task" /\ hooks.onStart
          THEN [fresh EXCEPT !.ctxBuilt = TRUE, !.pc = "onStart",
                             !.called = <<"onStart">>]
          ELSE [fresh EXCEPT !.ctxBuilt = TRUE, !.pc = "run",
                             !.called = <<"run">>]

\* entering the catch block of handleActivation with a thrown error
catchBlock(kind, act, error) ==
  IF kind = "workflow"
    THEN completeCall([act EXCEPT !.err = error], wfCatch(error), "reportCatch")
    ELSE IF act.hooks.onFailure /\ error.isError
      THEN [act EXCEPT !.err = error, !.pc = "onFailure",
                       !.called = Append(@, "onFailure")]
      ELSE completeCall([act EXCEPT !.err = error], taskCatch(error), "reportCatch")

\* a success path that reports the completion first and calls onSuccess after
afterRunReportFirst(kind, act, result) ==
  LET reported == completeCall(act,
         IF kind = "workflow" THEN wfCompleteWithSuccess(result)
                              ELSE taskCompleteWithSuccess(result),
         "reportTry")
  IN  IF kind = "task" /\ act.hooks.onSuccess
        THEN [reported EXCEPT !.pc = "onSuccess", !.called = Append(@, "onSuccess")]
        ELSE reported

\* the success path after run() has returned: onSuccess, then the report
afterRun(kind, act, result) ==
  IF kind = "task" /\ act.hooks.onSuccess
    THEN [act EXCEPT !.pc = "onSuccess", !.called = Append(@, "onSuccess")]
    ELSE completeCall(act,
           IF kind = "workflow" THEN wfCompleteWithSuccess(result)
                                ELSE taskCompleteWithSuccess(result),
           "reportTry")

\* the handleActivation promise settles: .finally(() => this.activeExecutions--)
settle(act, how) == [act EXCEPT !.pc = "done", !.settled = how]

\* ------------------------------------------------------------------------
\* Worker: start, stop and the poll loop
\* ------------------------------------------------------------------------
InitWorker ==
  /\ workerKind \in {"workflow", "task"}
  /\ running = FALSE
  /\ activeExecutions = 0
  /\ pollTimer = "null"
  /\ timers = 0
  /\ pollsInFlight = 0
  /\ pollTick = 0
  /\ acts = <<>>

\* a poll() that fetches no activation while a handler is running
pollWithAwaitingHandlers(limit, t, pt) ==
  /\ pollTick' = 1 - pollTick
  /\ IF ~running'
       THEN /\ timers' = t /\ pollTimer' = pt /\ UNCHANGED pollsInFlight
       ELSE IF activeExecutions >= 1
         THEN /\ timers' = t + 1 /\ pollTimer' = "pending"
              /\ UNCHANGED pollsInFlight
         ELSE /\ pollsInFlight' = pollsInFlight + 1
              /\ timers' = t /\ pollTimer' = pt

\* poll() of a worker whose options.maxConcurrent is `limit`, from its entry
\* to its await or return, called with `t` timeouts pending and
\* this.pollTimer = pt
pollWith(limit, t, pt) ==
  /\ pollTick' = 1 - pollTick
  /\ IF ~running'
       THEN /\ timers' = t /\ pollTimer' = pt /\ UNCHANGED pollsInFlight
       ELSE IF activeExecutions >= limit
         THEN \* schedulePoll()
              /\ timers' = t + 1 /\ pollTimer' = "pending"
              /\ UNCHANGED pollsInFlight
         ELSE \* await this.nativeWorker.poll...Activation()
              /\ pollsInFlight' = pollsInFlight + 1
              /\ timers' = t /\ pollTimer' = pt

poll(t, pt) == pollWith(maxConcurrent, t, pt)

\* a schedulePoll() that sets no timer
schedulePollNever == UNCHANGED <<timers, pollTimer>>

\* schedulePoll() at the end of poll()
schedulePoll ==
  IF running
    THEN timers' = timers + 1 /\ pollTimer' = "pending"
    ELSE UNCHANGED <<timers, pollTimer>>

\* start() of a worker whose options.maxConcurrent is `limit`: a call on a
\* running worker returns at once
startWith(limit) ==
  /\ ~running
  /\ pollsInFlight + timers < MaxChains
  /\ running' = TRUE
  /\ pollWith(limit, timers, pollTimer)
  /\ UNCHANGED <<workerKind, activeExecutions, acts>>
  /\ UNCHANGED <<ctxVars, clientVars, taskCtxVars, handleVars, mockVars,
               shutdownVars>>

start == startWith(maxConcurrent)

\* a stop() that marks the context of every handler in flight as cancelled
stopCancelling ==
  /\ running
  /\ running' = FALSE
  /\ pollTimer' = "null"
  /\ timers' = IF pollTimer = "pending" THEN timers - 1 ELSE timers
  /\ acts' = [a \in 1..Len(acts) |->
               IF acts[a].pc # "done" /\ acts[a].ctxBuilt
                 THEN [acts[a] EXCEPT !.cancelled = TRUE] ELSE acts[a]]
  /\ UNCHANGED <<workerKind, activeExecutions, pollsInFlight, pollTick>>
  /\ UNCHANGED <<ctxVars, clientVars, taskCtxVars, handleVars, mockVars,
               shutdownVars>>

\* stop()
stop ==
  /\ running
  /\ running' = FALSE
  /\ pollTimer' = "null"
  /\ timers' = IF pollTimer = "pending" THEN timers - 1 ELSE timers
  /\ UNCHANGED <<workerKind, activeExecutions, pollsInFlight, pollTick, acts>>
  /\ UNCHANGED <<ctxVars, clientVars, taskCtxVars, handleVars, mockVars,
               shutdownVars>>

\* a poll timeout fires (timeouts of equal delay fire in creation order, the
\* one this.pollTimer refers to is the youngest) and calls poll()
timerFiresWith(limit) ==
  /\ timers > 0
  /\ running' = running
  /\ pollWith(limit, timers - 1,
              IF pollTimer = "pending" /\ timers = 1 THEN "fired" ELSE pollTimer)
  /\ UNCHANGED <<workerKind, activeExecutions, acts>>
  /\ UNCHANGED <<ctxVars, clientVars, taskCtxVars, handleVars, mockVars,
               shutdownVars>>

timerFires == timerFiresWith(maxConcurrent)

\* poll() after the native poll has returned an activation: it counts the
\* activation, starts handleActivation and schedules the next poll
acceptWith(hookConfigs) ==
  /\ pollsInFlight > 0
  /\ \E registered \in BOOLEAN, hooks \in hookConfigs :
       /\ (workerKind = "workflow" \/ ~registered) => hooks = NoHooks
       /\ acts' = Append(acts, handleActivation(workerKind, registered, hooks))
  /\ activeExecutions' = activeExecutions + 1
  /\ pollsInFlight' = pollsInFlight - 1
  /\ schedulePoll
  /\ UNCHANGED <<workerKind, running, pollTick>>
  /\ UNCHANGED <<ctxVars, clientVars, taskCtxVars, handleVars, mockVars,
               shutdownVars>>

\* the activation is of any kind, registered or not, with any hooks
accept == acceptWith(HookConfigs)

\* the native poll returns an activation
pollReturnsActivation == Len(acts) < MaxActivations /\ accept

\* the native poll returns no activation, or throws (logged): next poll
pollReturnsNothing ==
  /\ pollsInFlight > 0
  /\ pollsInFlight' = pollsInFlight - 1
  /\ schedulePoll
  /\ UNCHANGED <<workerKind, running, pollTick, activeExecutions, acts>>
  /\ UNCHANGED <<ctxVars, clientVars, taskCtxVars, handleVars, mockVars,
               shutdownVars>>

\* ------------------------------------------------------------------------
\* The awaits of handleActivation
\* ------------------------------------------------------------------------
\* await taskDef.hooks.onStart(ctx, inputData)
onStartSettles(a) ==
  /\ acts[a].pc = "onStart"
  /\ \E ok \in BOOLEAN :
       acts' = [acts EXCEPT ![a] =
         IF ok THEN [@ EXCEPT !.pc = "run", !.called = Append(@, "run")]
               ELSE catchBlock(workerKind, @, OtherError("m1"))]
  /\ UNCHANGED <<workerKind, running, activeExecutions, pollTimer, timers, pollsInFlight, pollTick>>
  /\ UNCHANGED <<ctxVars, clientVars, taskCtxVars, handleVars, mockVars,
               shutdownVars>>

\* await def.run(ctx, inputData): the handler returns or throws
runSettles(a) ==
  /\ acts[a].pc = "run"
  /\ \/ \E v \in Values :
          acts' = [acts EXCEPT ![a] =
            afterRun(workerKind, [@ EXCEPT !.outcome = Returned(v)], v)]
     \/ \E e \in (IF workerKind = "workflow" THEN WorkflowThrows ELSE TaskThrows) :
          acts' = [acts EXCEPT ![a] =
            catchBlock(workerKind, [@ EXCEPT !.outcome = Threw(e)], e)]
  /\ UNCHANGED <<workerKind, running, activeExecutions, pollTimer, timers, pollsInFlight, pollTick>>
  /\ UNCHANGED <<ctxVars, clientVars, taskCtxVars, handleVars, mockVars,
               shutdownVars>>

\* await taskDef.hooks.onSuccess(ctx, inputData, result)
onSuccessSettles(a) ==
  /\ acts[a].pc = "onSuccess"
  /\ \E ok \in BOOLEAN :
       acts' = [acts EXCEPT ![a] =
         IF ok THEN completeCall(@, taskCompleteWithSuccess(@.outcome.value), "reportTry")
               ELSE catchBlock(workerKind, @, OtherError("m1"))]
  /\ UNCHANGED <<workerKind, running, activeExecutions, pollTimer, timers, pollsInFlight, pollTick>>
  /\ UNCHANGED <<ctxVars, clientVars, taskCtxVars, handleVars, mockVars,
               shutdownVars>>

\* await taskDef.hooks.onFailure(ctx, inputData, error): when the hook
\* throws, handleActivation rejects
onFailureSettles(a) ==
  /\ acts[a].pc = "onFailure"
  /\ \E ok \in BOOLEAN :
       IF ok
         THEN /\ acts' = [acts EXCEPT ![a] = completeCall(@, taskCatch(@.err), "reportCatch")]
              /\ UNCHANGED activeExecutions
         ELSE /\ acts' = [acts EXCEPT ![a] = settle(@, "rejected")]
              /\ activeExecutions' = activeExecutions - 1
  /\ UNCHANGED <<workerKind, running, pollTimer, timers, pollsInFlight, pollTick>>
  /\ UNCHANGED <<ctxVars, clientVars, taskCtxVars, handleVars, mockVars,
               shutdownVars>>

\* await this.nativeWorker.completeWorkflowActivation / completeTask
reportSettles(a) ==
  /\ acts[a].pc \in {"reportTry", "reportCatch", "reportUnknown"}
  /\ \E fate \in {"ok", "late", "lost"} :
       LET n == Len(acts[a].reports)
           act == [acts[a] EXCEPT !.reports[n].fate = fate]
       IN  IF fate = "ok"
             THEN /\ acts' = [acts EXCEPT ![a] = settle(act, "resolved")]
                  /\ activeExecutions' = activeExecutions - 1
             ELSE IF act.pc = "reportTry"
               THEN /\ acts' = [acts EXCEPT ![a] =
                          catchBlock(workerKind, act, OtherError("m1"))]
                    /\ UNCHANGED activeExecutions
               ELSE /\ acts' = [acts EXCEPT ![a] = settle(act, "rejected")]
                    /\ activeExecutions' = activeExecutions - 1
  /\ UNCHANGED <<workerKind, running, pollTimer, timers, pollsInFlight, pollTick>>
  /\ UNCHANGED <<ctxVars, clientVars, taskCtxVars, handleVars, mockVars,
               shutdownVars>>

\* ------------------------------------------------------------------------
\* FlovynClient: construction
\* ------------------------------------------------------------------------
\* names under which definitions are registered
Names == {"a"}

\* worker pairs a client creates in a behaviour
MaxPairs == 2

\* definition objects (two definitions may carry the same name); 0: none
MaxDefs == 2

Defs == 1..MaxDefs

NoCall ==
  [op |-> "none", name |-> "", def |-> 0, outcome |-> "", started |-> FALSE,
   startsInFlight |-> 0, workflowsBefore |-> <<>>, tasksBefore |-> <<>>,
   engineCalled |-> FALSE, createdWorkers |-> FALSE]

\* new FlovynClient(options)
NewClient ==
  /\ started = FALSE
  /\ nativeClient = 0
  /\ clientWorkers = 0
  /\ registeredWorkflows = [n \in Names |-> 0]
  /\ registeredTasks = [n \in Names |-> 0]
  /\ firstRegistered = [m \in {"workflows", "tasks"} |-> [n \in Names |-> 0]]
  /\ startsInFlight = 0
  /\ stopsInFlight = 0
  /\ pairs = <<>>
  /\ lastCall = NoCall

\* ------------------------------------------------------------------------
\* MockWorkflowContext: mocked task results
\* ------------------------------------------------------------------------
\* calls made on one mock context
MaxMockOps == 5

MockTaskNames == {"t1", "t2"}

MockResults == {"r1", "r2"}

MockInputs == {"i1"}

\* an entry of the Map _taskResults: absent (get returns undefined) or a list
NoEntry == [has |-> FALSE, list |-> <<>>]

Entry(list) == [has |-> TRUE, list |-> list]

NoMockCall ==
  [op |-> "none", name |-> "", input |-> "", threw |-> FALSE, result |-> "",
   executedBefore |-> <<>>]

\* the schedule methods that read _taskResults
ScheduleMethods == {"schedule", "scheduleByName", "scheduleAsync"}

TrackedTask(name, input, result) ==
  [taskName |-> name, input |-> input, result |-> result]

\* new MockWorkflowContext()
NewMock ==
  /\ mTaskResults = [n \in MockTaskNames |-> NoEntry]
  /\ executedTasks = <<>>
  /\ mQueued = [n \in MockTaskNames |-> <<>>]
  /\ mLast = NoMockCall
  /\ mOps = 0

\* ------------------------------------------------------------------------
\* client.stop(): the two workers seen from the waiting loop
\* ------------------------------------------------------------------------
\* const timeout = 30000, in intervals of sleep(100)
StopTimeout == 3

\* activations each of the two workers accepts in a behaviour
MaxHandlers == 2

WorkerKinds == {"workflow", "task"}

\* no stop() call is being looked into
ShutdownIdle ==
  /\ sPc = "idle"
  /\ sElapsed = 0
  /\ sActive = [k \in WorkerKinds |-> 0]
  /\ sPolls = [k \in WorkerKinds |-> 0]
  /\ sExit = "none"

\* no workflow handler is being looked into
CtxIdle ==
  /\ prog = <<>> /\ ip = 0 /\ hstate = "idle" /\ hout = NoOutcome
  /\ objs = <<>> /\ buf = <<>> /\ emitted = <<>> /\ raised = <<>>
  /\ caught = <<>> /\ engineSchedCalls = 0 /\ ctxReports = <<>>
  /\ answers = <<>> /\ engineNow = <<>> /\ yields = <<>> /\ ops = <<>>
  /\ childSeq = <<>> /\ prevRun = <<>>

\* the latest call on a task context: none yet
NoTaskCall ==
  [n |-> 0, op |-> "none", arg |-> "", threw |-> FALSE, err |-> NoErr,
   cbCalled |-> FALSE, cbThrew |-> FALSE, requested |-> FALSE,
   before |-> <<>>, after |-> <<>>]

\* no task handler is being looked into
TaskIdle ==
  /\ tOwner = "none" /\ tWired = <<>> /\ tCancelled = FALSE /\ tProgress = 0
  /\ tLastHeartbeat = 0 /\ tStreamEvents = <<>> /\ tProg = <<>> /\ tIp = 0
  /\ tState = "idle" /\ tOut = NoOutcome /\ tLast = NoTaskCall
  /\ tCallbacks = <<>> /\ tSucceeded = <<>> /\ tCancelRequested = FALSE
  /\ tReports = <<>>

\* no workflow handle is being looked into
HandleIdle == hOrigin = "none" /\ hBuf = <<>> /\ hEngineCalls = <<>> /\ hOps = <<>>

Init ==
  InitWorker /\ CtxIdle /\ NewClient /\ TaskIdle /\ HandleIdle /\ NewMock
  /\ ShutdownIdle

\* a settling that releases the slot only when handleActivation resolved
\* (.then instead of .finally)
handlingSettlesThenOnly(a) ==
  /\ acts[a].pc # "done"
  /\ \E how \in {"resolved", "rejected"} :
       /\ acts' = [acts EXCEPT ![a] = settle(@, how)]
       /\ activeExecutions' =
            IF how = "resolved" THEN activeExecutions - 1 ELSE activeExecutions
  /\ UNCHANGED <<workerKind, running, pollTimer, timers, pollsInFlight, pollTick>>
  /\ UNCHANGED <<ctxVars, clientVars, taskCtxVars, handleVars, mockVars,
               shutdownVars>>

\* the promise of handleActivation settles after the awaits of its body:
\* .finally(() => this.activeExecutions--)
handlingSettles(a) ==
  /\ acts[a].pc # "done"
  /\ \E how \in {"resolved", "rejected"} : acts' = [acts EXCEPT ![a] = settle(@, how)]
  /\ activeExecutions' = activeExecutions - 1
  /\ UNCHANGED <<workerKind, running, pollTimer, timers, pollsInFlight, pollTick>>
  /\ UNCHANGED <<ctxVars, clientVars, taskCtxVars, handleVars, mockVars,
               shutdownVars>>

\* the poll loop of one worker, with the activations it is handling
Next ==
  \/ start
  \/ stop
  \/ timerFires
  \/ pollReturnsActivation
  \/ pollReturnsNothing
  \/ \E a \in 1..Len(acts) : handlingSettles(a)

Spec == Init /\ [][Next]_vars

\* ------------------------------------------------------------------------
\* The dispatcher: handleActivation followed through each of its awaits
\* ------------------------------------------------------------------------
\* activations followed through handleActivation in a behaviour
MaxDispatched == 1

\* the native poll returns an activation to dispatch
pollDispatches == Len(acts) < MaxDispatched /\ accept

NextDispatch ==
  \/ start
  \/ timerFires
  \/ pollDispatches
  \/ \E a \in 1..Len(acts) : onStartSettles(a)
  \/ \E a \in 1..Len(acts) : runSettles(a)
  \/ \E a \in 1..Len(acts) : onSuccessSettles(a)
  \/ \E a \in 1..Len(acts) : onFailureSettles(a)
  \/ \E a \in 1..Len(acts) : reportSettles(a)

SpecDispatch == Init /\ [][NextDispatch]_vars

\* ------------------------------------------------------------------------
\* stop() while activations are being handled
\* ------------------------------------------------------------------------
\* the next await of handleActivation settles for activation a (of a
\* definition without hooks: the handler, then the completion call)
dispatchStep(a) ==
  \/ runSettles(a)
  \/ reportSettles(a)

\* start and stop of the worker around the handling of the activations its
\* polls return
\* the native poll returns an activation to dispatch, of an unknown kind or
\* of a definition without lifecycle hooks
pollDispatchesPlain == Len(acts) < MaxDispatched /\ acceptWith({NoHooks})

NextStop ==
  \/ start
  \/ stop
  \/ timerFires
  \/ pollDispatchesPlain
  \/ \E a \in 1..Len(acts) : dispatchStep(a)

SpecStop == Init /\ [][NextStop]_vars

\* ------------------------------------------------------------------------
\* The poll loop of a worker that may handle several activations at once
\* ------------------------------------------------------------------------
\* options.maxConcurrent of that worker
MaxConcurrentWide == 2

\* the native poll returns an activation of a kind without hooks
pollFetches == Len(acts) < MaxActivations /\ acceptWith({NoHooks})

NextLoop ==
  \/ startWith(MaxConcurrentWide)
  \/ stop
  \/ timerFiresWith(MaxConcurrentWide)
  \/ pollFetches
  \/ pollReturnsNothing
  \/ \E a \in 1..Len(acts) : handlingSettles(a)

SpecLoop == Init /\ [][NextLoop]_vars

\* the host runs the callback of every timeout that stays pending
SpecLoopFair == SpecLoop /\ WF_vars(timerFiresWith(MaxConcurrentWide))

\* ========================================================================
\* One workflow activation from inside the handler
\* ========================================================================
\* instructions of a handler
MaxSteps == 3
\* objects (handles, promises) an await instruction can name
MaxObjs == 2
\* activations of the same execution that are followed, the later ones
\* running against the history of the first
MaxRuns == 2

\* names of the child workflow definitions a handler schedules
ChildKinds == {"wfA", "wfB"}

Instr(op, kind, hs, c) == [op |-> op, kind |-> kind, hs |-> hs, catchAll |-> c]

\* h = ctx.schedule(taskDef, input) / h = ctx.scheduleWorkflow(workflowDef, input)
\* p = ctx.promise(name) / ctx.waitForSignal(name): the call, not yet awaited
\* ctx.set(key, value)
\* await x, alone or inside try { } catch (e) { }
\* await Promise.all([x, y]), alone or inside try { } catch (e) { }
Instrs ==
  {Instr("schedule", k, <<>>, FALSE) : k \in {"task"} \cup ChildKinds}
    \cup {Instr("prim", "prim", <<>>, FALSE)}
    \cup {Instr("set", "", <<>>, FALSE)}
    \cup {Instr("await", "", <<h>>, c) : h \in 1..MaxObjs, c \in BOOLEAN}
    \cup {Instr("all", "", hs, c) : hs \in {<<1, 2>>, <<2, 1>>}, c \in BOOLEAN}

\* objects created by the instructions before position i
ObjsBefore(p, i) == Cardinality({j \in 1..(i - 1) : p[j].op \in {"schedule", "prim"}})

\* an instruction awaits only what earlier instructions have created
WellFormed(p) ==
  \A i \in 1..Len(p) : \A k \in 1..Len(p[i].hs) : p[i].hs[k] <= ObjsBefore(p, i)

Programs ==
  {p \in UNION {[1..n -> Instrs] : n \in 0..MaxSteps} : WellFormed(p)}

\* the kind of handle a schedule instruction returns
HandleKind(k) == IF k \in ChildKinds THEN "child" ELSE k

EngineResult(st, out, err) == [status |-> st, output |-> out, error |-> err]

\* what the native context can answer to scheduleTask (kind "task"),
\* scheduleChildWorkflow (kind "child") or createPromise / waitForSignal
\* (kind "prim"): the recorded output of a completed operation may be any
\* value, null included, or be empty
AnswersTo(kind) ==
  CASE kind = "prim" ->
         { EngineResult("completed", serialize("v1"), Absent),
           EngineResult("completed", Absent, Absent),
           EngineResult("failed", Absent, <<"m1">>),
           EngineResult("timed_out", Absent, Absent),
           EngineResult("pending", Absent, Absent) }
    [] kind = "child" ->
         { EngineResult("completed", serialize("v1"), Absent),
           EngineResult("failed", Absent, <<"m1">>),
           EngineResult("pending", Absent, Absent) }
    [] OTHER ->
         { EngineResult("completed", serialize("v1"), Absent),
           EngineResult("completed", serialize("v2"), Absent),
           EngineResult("completed", serialize("null"), Absent),
           EngineResult("failed", Absent, <<"m1">>),
           EngineResult("pending", Absent, Absent) }

EngineResults == AnswersTo("task") \cup AnswersTo("prim")

\* the answer to the next object-creating call: an activation that runs
\* against the history of an earlier one gets the recorded answer
HistoryAnswers(kind) ==
  IF prevRun # <<>> /\ Len(answers) < Len(prevRun[1].answers)
    THEN {prevRun[1].answers[Len(answers) + 1]}
    ELSE AnswersTo(kind)

\* the engine's state of an operation after it has moved on
Changed(res) ==
  IF res.status = "completed"
    THEN EngineResult("failed", Absent, <<"m1">>)
    ELSE EngineResult("completed", serialize("v2"), Absent)

\* typed failures given to the handler
ChildWorkflowFailed(m) == Err("ChildWorkflowFailed", m)

PromiseRejected(m) == Err("PromiseRejected", m)

PromiseTimeout == Err("PromiseTimeout", "timed out")

UnexpectedState == Err("Error", "unexpected state")

\* a handle built by every schedule() from the result of the first call
HandleShared(kind, res) ==
  [kind |-> kind, res |-> IF objs = <<>> THEN res ELSE objs[1].res,
   cached |-> "none", rejection |-> NoErr, id |-> Len(objs) + 1]

\* a handle as built by schedule() / scheduleWorkflow(): its closures hold
\* the result of its own native call; cached is the handle's _result:
\* "none", "value" or "error"
Handle(kind, res) ==
  [kind |-> kind, res |-> res, cached |-> "none", rejection |-> NoErr,
   id |-> Len(objs) + 1]

\* the promise an async primitive has returned: resolved, or rejected with
\* `rejection`
PromiseObj(res, rejection) ==
  [kind |-> "prim", res |-> res, cached |-> "none", rejection |-> rejection,
   id |-> Len(objs) + 1]

\* outcome of awaiting one object: the value or the error, the object and
\* the command buffer afterwards, the microtask tick at which a rejection
\* reaches an enclosing Promise.all, and the native calls made
Got(o, b) ==
  [threw |-> FALSE, err |-> NoErr, obj |-> o, buf |-> b, tick |-> 0, calls |-> 0]

Thrown(e, o, b, t) ==
  [threw |-> TRUE, err |-> e, obj |-> o, buf |-> b, tick |-> t,
   calls |-> IF e.type = "WorkflowSuspended" THEN 1 ELSE 0]

\* getResult closure of schedule() / scheduleWorkflow(): TRUE when it
\* returns a non-null value
getResultHasValue(o) ==
  /\ o.res.status = "completed"
  /\ o.res.output # Absent
  /\ deserialize(o.res.output) # "null"

\* a result() that asks the engine again on every call
taskResultRequery(o, b) ==
  LET res == engineNow[o.id]
      q == [o EXCEPT !.res = res]
  IN  IF res.status = "completed" /\ res.output # Absent
        THEN [Got(q, b) EXCEPT !.calls = 1]
      ELSE IF res.status = "failed"
        THEN [Thrown(TaskFailed(res.error[1], FALSE), q, b, 2) EXCEPT !.calls = 1]
      ELSE Thrown(WorkflowSuspended(b), q, <<>>, 2)

\* TaskHandleImpl.result(), called with command buffer b
taskResult(o, b) ==
  IF o.cached = "value" THEN Got(o, b)
  ELSE IF getResultHasValue(o) THEN Got([o EXCEPT !.cached = "value"], b)
  ELSE IF o.res.status = "failed"
    THEN Thrown(TaskFailed(o.res.error[1], FALSE), o, b, 2)
  ELSE IF o.res.status = "pending"
    THEN Thrown(WorkflowSuspended(b), o, <<>>, 2)
  ELSE Thrown(UnexpectedState, o, b, 2)

\* a result() that takes a failed child workflow for a pending one
childResultNoError(o, b) ==
  IF o.cached = "value" THEN Got(o, b)
  ELSE IF getResultHasValue(o) THEN Got([o EXCEPT !.cached = "value"], b)
  ELSE Thrown(WorkflowSuspended(b), o, <<>>, 2)

\* ChildWorkflowHandleImpl.result(), called with command buffer b
childResult(o, b) ==
  IF o.cached = "value" THEN Got(o, b)
  ELSE IF o.cached = "error"
    THEN Thrown(ChildWorkflowFailed(o.res.error[1]), o, b, 3)
  ELSE IF getResultHasValue(o) THEN Got([o EXCEPT !.cached = "value"], b)
  ELSE IF o.res.error # Absent
    THEN Thrown(ChildWorkflowFailed(o.res.error[1]), [o EXCEPT !.cached = "error"], b, 3)
  ELSE IF o.res.status = "pending"
    THEN Thrown(WorkflowSuspended(b), o, <<>>, 2)
  ELSE Thrown(UnexpectedState, o, b, 2)

\* awaiting an object: then() of a handle calls result(); a promise of an
\* async primitive is already settled
awaited(o, b) ==
  CASE o.kind = "task" -> taskResult(o, b)
    [] o.kind = "child" -> childResult(o, b)
    [] OTHER -> IF o.rejection = NoErr THEN Got(o, b)
                                       ELSE Thrown(o.rejection, o, b, 1)

\* what the handler code is given by awaiting object h with outcome r
Yield(h, r) ==
  [h |-> h, threw |-> r.threw, err |-> r.err,
   value |-> IF r.threw THEN Absent ELSE <<deserialize(r.obj.res.output)>>,
   calls |-> r.calls,
   engineChanged |-> engineNow[h] # answers[h]]

\* a schedule() that suspends at the call when the operation is pending, as
\* scheduleByName does
scheduleEager(kind, res) ==
  [obj |-> Handle(kind, res), suspends |-> res.status = "pending"]

\* WorkflowContextImpl.schedule / scheduleWorkflow after the native call has
\* answered res: the handle, and whether the call throws WorkflowSuspended
schedule(kind, res) == [obj |-> Handle(kind, res), suspends |-> FALSE]

\* promise / waitForSignal after the native call has answered res, with
\* command buffer b: the returned promise and the buffer afterwards (sleep
\* and run suspend in the same way)
primitive(res, b) ==
  CASE res.status = "completed" /\ res.output # Absent ->
         [obj |-> PromiseObj(res, NoErr), buf |-> b]
    [] res.status = "failed" ->
         [obj |-> PromiseObj(res, PromiseRejected(res.error[1])), buf |-> b]
    [] res.status = "timed_out" ->
         [obj |-> PromiseObj(res, PromiseTimeout), buf |-> b]
    [] res.status = "pending" ->
         [obj |-> PromiseObj(res, WorkflowSuspended(b)), buf |-> <<>>]
    [] OTHER -> [obj |-> PromiseObj(res, UnexpectedState), buf |-> b]

\* one counter for the children of every kind
nextChildWorkflowSeqShared(kind) ==
  LET total == Cardinality({i \in 1..Len(ops) : ops[i].op = "scheduleChildWorkflow"})
  IN  [seq |-> total + 1, map |-> [childSeq EXCEPT ![kind] = @ + 1]]

\* _nextChildWorkflowSeq(kind): the number and the map afterwards
nextChildWorkflowSeq(kind) ==
  [seq |-> childSeq[kind] + 1, map |-> [childSeq EXCEPT ![kind] = @ + 1]]

\* the native call a schedule instruction of kind k makes; a child workflow
\* is named `${workflowDef.name}-${seq}`
ScheduleOp(k, seq) ==
  IF k \in ChildKinds
    THEN [op |-> "scheduleChildWorkflow", kind |-> k, name |-> <<k, "-", seq>>]
    ELSE [op |-> "scheduleTask", kind |-> k, name |-> <<>>]

PrimOp == [op |-> "createPromise", kind |-> "prim", name |-> <<>>]

SetOp == [op |-> "setState", kind |-> "", name |-> <<>>]

\* a WorkflowSuspended has been constructed by step `by`
Raise(by, cmds) == [by |-> by, commands |-> cmds, schedCalls |-> engineSchedCalls]

\* the native call appends its command to the buffer
emit(b) == Append(b, Len(emitted) + 1)

\* the handler receives error e at an await: its catch block swallows it,
\* or run() rejects with it
HandlerGets(e, catchAll) ==
  IF catchAll
    THEN /\ caught' = Append(caught, e)
         /\ ip' = ip + 1
         /\ UNCHANGED <<hstate, hout>>
    ELSE /\ hstate' = "threw"
         /\ hout' = Threw(e)
         /\ UNCHANGED <<caught, ip>>

HandlerGoesOn == ip' = ip + 1 /\ UNCHANGED <<hstate, hout, caught>>

AtInstr(op) == hstate = "running" /\ ip <= Len(prog) /\ prog[ip].op = op

\* new WorkflowContextImpl(activationData)
NewContext ==
  /\ ip = 1 /\ hstate = "running" /\ hout = NoOutcome
  /\ objs = <<>> /\ buf = <<>> /\ emitted = <<>> /\ raised = <<>>
  /\ caught = <<>> /\ engineSchedCalls = 0 /\ ctxReports = <<>>
  /\ answers = <<>> /\ engineNow = <<>> /\ yields = <<>> /\ ops = <<>>
  /\ childSeq = [k \in ChildKinds |-> 0]

InitCtx ==
  /\ workerKind = "workflow" /\ running = FALSE /\ activeExecutions = 0
  /\ pollTimer = "null" /\ timers = 0 /\ pollsInFlight = 0 /\ pollTick = 0
  /\ acts = <<>>
  /\ prog \in Programs
  /\ prevRun = <<>>
  /\ NewContext
  /\ NewClient
  /\ TaskIdle
  /\ HandleIdle
  /\ NewMock
  /\ ShutdownIdle

\* h = ctx.schedule(...) or ctx.scheduleWorkflow(...)
ctxSchedule ==
  /\ AtInstr("schedule")
  /\ \E res \in HistoryAnswers(HandleKind(prog[ip].kind)) :
       LET k == prog[ip].kind
           s == schedule(HandleKind(k), res)
           n == IF k \in ChildKinds THEN nextChildWorkflowSeq(k)
                                    ELSE [seq |-> 0, map |-> childSeq]
           b == emit(buf)
       IN  /\ engineSchedCalls' = engineSchedCalls + 1
           /\ emitted' = Append(emitted, Len(emitted) + 1)
           /\ objs' = Append(objs, s.obj)
           /\ answers' = Append(answers, res)
           /\ engineNow' = Append(engineNow, res)
           /\ ops' = Append(ops, ScheduleOp(k, n.seq))
           /\ childSeq' = n.map
           /\ IF s.suspends
                THEN /\ raised' = Append(raised, [Raise("schedule", b) EXCEPT
                                            !.schedCalls = engineSchedCalls + 1])
                     /\ buf' = <<>>
                     /\ HandlerGets(WorkflowSuspended(b), FALSE)
                ELSE /\ buf' = b
                     /\ HandlerGoesOn
                     /\ UNCHANGED raised
  /\ UNCHANGED <<prog, ctxReports, yields, prevRun>>
  /\ UNCHANGED <<workerVars, clientVars, taskCtxVars, handleVars, mockVars,
               shutdownVars>>

\* p = ctx.promise(...) or ctx.waitForSignal(...): the async function runs
\* to its end at the call and returns a settled promise
ctxPrim ==
  /\ AtInstr("prim")
  /\ \E res \in HistoryAnswers("prim") :
       LET b == emit(buf)
           r == primitive(res, b)
       IN  /\ emitted' = Append(emitted, Len(emitted) + 1)
           /\ objs' = Append(objs, r.obj)
           /\ answers' = Append(answers, res)
           /\ engineNow' = Append(engineNow, res)
           /\ buf' = r.buf
           /\ raised' = IF r.obj.rejection.type = "WorkflowSuspended"
                          THEN Append(raised, Raise("prim", b))
                          ELSE raised
  /\ ops' = Append(ops, PrimOp)
  /\ HandlerGoesOn
  /\ UNCHANGED <<prog, engineSchedCalls, ctxReports, yields, childSeq, prevRun>>
  /\ UNCHANGED <<workerVars, clientVars, taskCtxVars, handleVars, mockVars,
               shutdownVars>>

\* ctx.set(key, value): mirrored to the engine, never suspends
ctxSet ==
  /\ AtInstr("set")
  /\ buf' = emit(buf)
  /\ emitted' = Append(emitted, Len(emitted) + 1)
  /\ ops' = Append(ops, SetOp)
  /\ HandlerGoesOn
  /\ UNCHANGED <<prog, objs, raised, engineSchedCalls, ctxReports, answers,
                 engineNow, yields, childSeq, prevRun>>
  /\ UNCHANGED <<workerVars, clientVars, taskCtxVars, handleVars, mockVars,
               shutdownVars>>

\* the WorkflowSuspended signals that awaiting object o has constructed
RaisedBy(by, o, r) ==
  IF o.kind # "prim" /\ r.threw /\ r.err.type = "WorkflowSuspended"
    THEN <<Raise(by, r.err.commands)>>
    ELSE <<>>

\* await x
ctxAwait ==
  /\ AtInstr("await")
  /\ LET h == prog[ip].hs[1]
         r == awaited(objs[h], buf)
     IN  /\ objs' = [objs EXCEPT ![h] = r.obj]
         /\ buf' = r.buf
         /\ raised' = raised \o RaisedBy("await", objs[h], r)
         /\ yields' = Append(yields, Yield(h, r))
         /\ IF r.threw THEN HandlerGets(r.err, prog[ip].catchAll)
                       ELSE HandlerGoesOn
  /\ UNCHANGED <<prog, emitted, engineSchedCalls, ctxReports, answers,
                 engineNow, ops, childSeq, prevRun>>
  /\ UNCHANGED <<workerVars, clientVars, taskCtxVars, handleVars, mockVars,
               shutdownVars>>

\* await Promise.all([x, y]): then() of every element runs, in array order;
\* the first rejection to arrive rejects the whole
ctxAll ==
  /\ AtInstr("all")
  /\ LET i == prog[ip].hs[1]
         j == prog[ip].hs[2]
         r1 == awaited(objs[i], buf)
         r2 == awaited(objs[j], r1.buf)
         first == IF r1.threw /\ (~r2.threw \/ r1.tick <= r2.tick) THEN r1 ELSE r2
     IN  /\ objs' = [objs EXCEPT ![i] = r1.obj, ![j] = r2.obj]
         /\ buf' = r2.buf
         /\ raised' = raised \o RaisedBy("all", objs[i], r1) \o RaisedBy("all", objs[j], r2)
         /\ yields' = yields \o <<Yield(i, r1), Yield(j, r2)>>
         /\ IF r1.threw \/ r2.threw THEN HandlerGets(first.err, prog[ip].catchAll)
                                    ELSE HandlerGoesOn
  /\ UNCHANGED <<prog, emitted, engineSchedCalls, ctxReports, answers,
                 engineNow, ops, childSeq, prevRun>>
  /\ UNCHANGED <<workerVars, clientVars, taskCtxVars, handleVars, mockVars,
               shutdownVars>>

\* the handler reaches its return statement
ctxReturn ==
  /\ hstate = "running" /\ ip > Len(prog)
  /\ hstate' = "returned"
  /\ hout' = Returned("v1")
  /\ UNCHANGED <<prog, ip, objs, buf, emitted, raised, caught, engineSchedCalls,
                 ctxReports, answers, engineNow, yields, ops, childSeq, prevRun>>
  /\ UNCHANGED <<workerVars, clientVars, taskCtxVars, handleVars, mockVars,
               shutdownVars>>

\* handleActivation of the workflow worker translates the outcome of
\* run(ctx, inputData) into the completion it sends
ctxDispatch ==
  /\ hstate \in {"returned", "threw"}
  /\ LET act == handleActivation("workflow", TRUE, NoHooks)
         done == IF hstate = "returned"
                   THEN afterRun("workflow", act, hout.value)
                   ELSE catchBlock("workflow", act, hout.err)
     IN  ctxReports' = [k \in 1..Len(done.reports) |-> done.reports[k].completion]
  /\ hstate' = "reported"
  /\ UNCHANGED <<prog, ip, hout, objs, buf, emitted, raised, caught,
                 engineSchedCalls, answers, engineNow, yields, ops, childSeq,
                 prevRun>>
  /\ UNCHANGED <<workerVars, clientVars, taskCtxVars, handleVars, mockVars,
               shutdownVars>>

\* the engine's state of operation h moves on between two result() calls of
\* the handler on its handle
engineChanges(h) ==
  /\ hstate = "running"
  /\ engineNow[h] = answers[h]
  /\ \E k \in 1..Len(yields) : yields[k].h = h
  /\ \E j \in ip..Len(prog) : \E k \in 1..Len(prog[j].hs) : prog[j].hs[k] = h
  /\ engineNow' = [engineNow EXCEPT ![h] = Changed(@)]
  /\ UNCHANGED <<prog, ip, hstate, hout, objs, buf, emitted, raised, caught,
                 engineSchedCalls, ctxReports, answers, yields, ops, childSeq,
                 prevRun>>
  /\ UNCHANGED <<workerVars, clientVars, taskCtxVars, handleVars, mockVars,
               shutdownVars>>

\* the handler runs again for the same execution, in a later activation
\* with a new context, against the history of the first one
ctxReplay ==
  /\ hstate = "reported"
  /\ Len(prevRun) < MaxRuns - 1
  /\ prevRun' = <<[ops |-> ops, answers |-> answers]>> \o prevRun
  /\ ip' = 1 /\ hstate' = "running" /\ hout' = NoOutcome
  /\ objs' = <<>> /\ buf' = <<>> /\ emitted' = <<>> /\ raised' = <<>>
  /\ caught' = <<>> /\ engineSchedCalls' = 0 /\ ctxReports' = <<>>
  /\ answers' = <<>> /\ engineNow' = <<>> /\ yields' = <<>> /\ ops' = <<>>
  /\ childSeq' = [k \in ChildKinds |-> 0]
  /\ UNCHANGED prog
  /\ UNCHANGED <<workerVars, clientVars, taskCtxVars, handleVars, mockVars,
               shutdownVars>>

NextCtx ==
  \/ ctxSchedule
  \/ ctxPrim
  \/ ctxSet
  \/ ctxAwait
  \/ ctxAll
  \/ ctxReturn
  \/ ctxDispatch
  \/ \E h \in 1..Len(objs) : engineChanges(h)
  \/ ctxReplay

SpecCtx == InitCtx /\ [][NextCtx]_vars

\* ------------------------------------------------------------------------
\* A handler that awaits its operations one after another, re-activated
\* after every suspension
\* ------------------------------------------------------------------------
\* for (i < n) { result = await ctx.schedule(task, input) }
SeqProgram(n) ==
  [i \in 1..(2 * n) |->
     IF i % 2 = 1 THEN Instr("schedule", "task", <<>>, FALSE)
                  ELSE Instr("await", "", <<i \div 2>>, FALSE)]

\* operations of the handler that runs
SeqOps == Len(prog) \div 2

\* the activation that is running, counted from 1
Activation == Len(prevRun) + 1

InitSeq ==
  /\ workerKind = "workflow" /\ running = FALSE /\ activeExecutions = 0
  /\ pollTimer = "null" /\ timers = 0 /\ pollsInFlight = 0 /\ pollTick = 0
  /\ acts = <<>>
  /\ prog \in {SeqProgram(n) : n \in 1..MaxObjs}
  /\ prevRun = <<>>
  /\ NewContext
  /\ NewClient
  /\ TaskIdle
  /\ HandleIdle
  /\ NewMock
  /\ ShutdownIdle

\* the activation was reported Suspended; the engine resolves the pending
\* operation and activates the execution again: the handler runs from its
\* start with a new context, against the history so far
ctxReactivate ==
  /\ hstate = "reported"
  /\ Len(ctxReports) = 1 /\ ctxReports[1].status = "Suspended"
  /\ Activation < SeqOps + 2
  /\ \E res \in {a \in AnswersTo("task") : a.status # "pending"} :
       prevRun' = <<[ops |-> ops,
                     answers |-> [i \in 1..Len(answers) |->
                                    IF answers[i].status = "pending"
                                      THEN res ELSE answers[i]]]>> \o prevRun
  /\ ip' = 1 /\ hstate' = "running" /\ hout' = NoOutcome
  /\ objs' = <<>> /\ buf' = <<>> /\ emitted' = <<>> /\ raised' = <<>>
  /\ caught' = <<>> /\ engineSchedCalls' = 0 /\ ctxReports' = <<>>
  /\ answers' = <<>> /\ engineNow' = <<>> /\ yields' = <<>> /\ ops' = <<>>
  /\ childSeq' = [k \in ChildKinds |-> 0]
  /\ UNCHANGED prog
  /\ UNCHANGED <<workerVars, clientVars, taskCtxVars, handleVars, mockVars,
               shutdownVars>>

NextSeq ==
  \/ ctxSchedule
  \/ ctxAwait
  \/ ctxReturn
  \/ ctxDispatch
  \/ ctxReactivate

SpecSeq == InitSeq /\ [][NextSeq]_vars

\* ========================================================================
\* FlovynClient: registration, start, stop and the calls on a started client
\* ========================================================================
AlreadyStarted == "Client is already started"

NotStarted == "Client is not started"

AlreadyRegistered == "already registered"

RegisterAfterStart == "Cannot register after client has started"

\* a call on the client, with the state it found
Call(op, name, def) ==
  [NoCall EXCEPT !.op = op, !.name = name, !.def = def, !.started = started,
                 !.startsInFlight = startsInFlight,
                 !.workflowsBefore = registeredWorkflows,
                 !.tasksBefore = registeredTasks]

\* a registration that replaces the definition a name is registered with
registerIntoOverwriting(map, name, def) ==
  IF started
    THEN [map |-> map, outcome |-> RegisterAfterStart]
    ELSE [map |-> [map EXCEPT ![name] = def], outcome |-> "ok"]

\* body of registerWorkflow / registerTask on the map of the call
registerInto(map, name, def) ==
  IF started
    THEN [map |-> map, outcome |-> RegisterAfterStart]
  ELSE IF map[name] # 0
    THEN [map |-> map, outcome |-> AlreadyRegistered]
  ELSE [map |-> [map EXCEPT ![name] = def], outcome |-> "ok"]

\* the first definition registered under each name of map m
NoteFirst(m, name, def, r) ==
  IF r.outcome = "ok" /\ firstRegistered[m][name] = 0
    THEN [firstRegistered EXCEPT ![m][name] = def]
    ELSE firstRegistered

InitClient ==
  /\ workerKind = "workflow" /\ running = FALSE /\ activeExecutions = 0
  /\ pollTimer = "null" /\ timers = 0 /\ pollsInFlight = 0 /\ pollTick = 0
  /\ acts = <<>>
  /\ CtxIdle
  /\ NewClient
  /\ TaskIdle
  /\ HandleIdle
  /\ NewMock
  /\ ShutdownIdle

\* client.registerWorkflow(workflow)
registerWorkflow(name, def) ==
  LET r == registerInto(registeredWorkflows, name, def)
  IN  /\ registeredWorkflows' = r.map
      /\ firstRegistered' = NoteFirst("workflows", name, def, r)
      /\ lastCall' = [Call("registerWorkflow", name, def) EXCEPT !.outcome = r.outcome]
      /\ UNCHANGED <<started, nativeClient, clientWorkers, registeredTasks,
                     startsInFlight, stopsInFlight, pairs>>
      /\ UNCHANGED <<workerVars, ctxVars, taskCtxVars, handleVars, mockVars,
               shutdownVars>>

\* client.registerTask(task)
registerTask(name, def) ==
  LET r == registerInto(registeredTasks, name, def)
  IN  /\ registeredTasks' = r.map
      /\ firstRegistered' = NoteFirst("tasks", name, def, r)
      /\ lastCall' = [Call("registerTask", name, def) EXCEPT !.outcome = r.outcome]
      /\ UNCHANGED <<started, nativeClient, clientWorkers, registeredWorkflows,
                     startsInFlight, stopsInFlight, pairs>>
      /\ UNCHANGED <<workerVars, ctxVars, taskCtxVars, handleVars, mockVars,
               shutdownVars>>

\* the WorkflowWorker / TaskWorker pair start() creates from the registered
\* definitions
NewPair ==
  [running |-> FALSE, workflows |-> registeredWorkflows, tasks |-> registeredTasks]

\* client.start() up to `await this.nativeWorker.register()`
clientStart ==
  /\ IF started
       THEN /\ lastCall' = [Call("start", "", 0) EXCEPT !.outcome = AlreadyStarted]
            /\ UNCHANGED <<nativeClient, clientWorkers, pairs, startsInFlight>>
       ELSE /\ Len(pairs) < MaxPairs
            /\ nativeClient' = Len(pairs) + 1
            /\ pairs' = Append(pairs, NewPair)
            /\ clientWorkers' = Len(pairs) + 1
            /\ startsInFlight' = startsInFlight + 1
            /\ lastCall' = [Call("start", "", 0) EXCEPT !.outcome = "pending",
                                                       !.createdWorkers = TRUE]
  /\ UNCHANGED <<started, registeredWorkflows, registeredTasks, firstRegistered,
                 stopsInFlight>>
  /\ UNCHANGED <<workerVars, ctxVars, taskCtxVars, handleVars, mockVars,
               shutdownVars>>

\* nativeWorker.register() resolves: start() starts the workers the fields
\* refer to and sets started (it throws if the fields are null by now)
registerResolves ==
  /\ startsInFlight > 0
  /\ startsInFlight' = startsInFlight - 1
  /\ IF clientWorkers = 0
       THEN UNCHANGED <<pairs, started>>
       ELSE /\ pairs' = [pairs EXCEPT ![clientWorkers].running = TRUE]
            /\ started' = TRUE
  /\ UNCHANGED <<nativeClient, clientWorkers, registeredWorkflows, registeredTasks,
                 firstRegistered, stopsInFlight, lastCall>>
  /\ UNCHANGED <<workerVars, ctxVars, taskCtxVars, handleVars, mockVars,
               shutdownVars>>

\* nativeWorker.register() rejects: start() rejects
registerRejects ==
  /\ startsInFlight > 0
  /\ startsInFlight' = startsInFlight - 1
  /\ UNCHANGED <<started, nativeClient, clientWorkers, registeredWorkflows,
                 registeredTasks, firstRegistered, stopsInFlight, pairs, lastCall>>
  /\ UNCHANGED <<workerVars, ctxVars, taskCtxVars, handleVars, mockVars,
               shutdownVars>>

\* the workers the fields refer to are stopped
WorkersStopped ==
  IF clientWorkers = 0 THEN pairs
                       ELSE [pairs EXCEPT ![clientWorkers].running = FALSE]

\* the end of stop()
StopEnds ==
  /\ nativeClient' = 0
  /\ clientWorkers' = 0
  /\ started' = FALSE

\* client.stop() on a started client: it stops the workers and, when no
\* work is active, ends at once; otherwise it waits
clientStop ==
  /\ started
  /\ stopsInFlight = 0
  /\ lastCall' = [Call("stop", "", 0) EXCEPT !.outcome = "ok"]
  /\ \/ /\ pairs' = WorkersStopped
        /\ StopEnds
        /\ UNCHANGED stopsInFlight
     \/ /\ pairs' = WorkersStopped
        /\ stopsInFlight' = 1
        /\ UNCHANGED <<nativeClient, clientWorkers, started>>
  /\ UNCHANGED <<registeredWorkflows, registeredTasks, firstRegistered, startsInFlight>>
  /\ UNCHANGED <<workerVars, ctxVars, taskCtxVars, handleVars, mockVars,
               shutdownVars>>

\* the waiting loop of stop() ends
stopCompletes ==
  /\ stopsInFlight > 0
  /\ stopsInFlight' = stopsInFlight - 1
  /\ StopEnds
  /\ UNCHANGED <<registeredWorkflows, registeredTasks, firstRegistered,
                 startsInFlight, pairs, lastCall>>
  /\ UNCHANGED <<workerVars, ctxVars, taskCtxVars, handleVars, mockVars,
               shutdownVars>>

\* the calls that need a connected client; all but getWorkflowHandle call
\* the engine
ClientOps ==
  {"startWorkflow", "getWorkflowHandle", "resolvePromise", "rejectPromise",
   "signalWorkflow"}

\* startWorkflow, getWorkflowHandle, resolvePromise, rejectPromise,
\* signalWorkflow
clientCall(op) ==
  /\ lastCall' =
       IF nativeClient = 0
         THEN [Call(op, "", 0) EXCEPT !.outcome = NotStarted]
         ELSE [Call(op, "", 0) EXCEPT !.outcome = "ok",
                                      !.engineCalled = (op # "getWorkflowHandle")]
  /\ UNCHANGED <<started, nativeClient, clientWorkers, registeredWorkflows,
                 registeredTasks, firstRegistered, startsInFlight, stopsInFlight,
                 pairs>>
  /\ UNCHANGED <<workerVars, ctxVars, taskCtxVars, handleVars, mockVars,
               shutdownVars>>

NextClient ==
  \/ \E name \in Names, def \in Defs : registerWorkflow(name, def)
  \/ \E name \in Names, def \in Defs : registerTask(name, def)
  \/ clientStart
  \/ registerResolves
  \/ registerRejects
  \/ clientStop
  \/ stopCompletes
  \/ \E op \in ClientOps : clientCall(op)

SpecClient == InitClient /\ [][NextClient]_vars

\* ========================================================================
\* One task activation seen from inside the handler: TaskContextImpl
\* ========================================================================
\* calls the task handler makes in the activations enumerated
MaxCalls == 2

\* arguments of reportProgress in tenths: -0.1, 0, 0.5, 1.0 and 1.1
ProgressInputs == {-1, 0, 5, 10, 11}

StreamTypes == {"token", "progress", "data", "error"}

\* the payload a handler streams for each type of event
StreamPayload(type) ==
  CASE type = "token" -> "A"
    [] type = "progress" -> 5
    [] type = "data" -> "d"
    [] type = "error" -> "oops"

\* the method that stream(event) calls for each event type
StreamMethod(type) ==
  CASE type = "token" -> "streamToken"
    [] type = "progress" -> "streamProgress"
    [] type = "data" -> "streamData"
    [] type = "error" -> "streamError"

StreamMethods == {StreamMethod(t) : t \in StreamTypes}

\* the event type each streaming method records
StreamTypeOf(method) == CHOOSE t \in StreamTypes : StreamMethod(t) = method

TaskInstr(op, arg) == [op |-> op, arg |-> arg]

\* the calls a task handler can make on its context
TaskInstrs ==
  {TaskInstr("reportProgress", p) : p \in ProgressInputs}
    \cup {TaskInstr("heartbeat", ""), TaskInstr("checkCancellation", "")}
    \cup {TaskInstr("stream", t) : t \in StreamTypes}
    \cup {TaskInstr(m, StreamPayload(StreamTypeOf(m))) : m \in StreamMethods}

Heartbeat == TaskInstr("heartbeat", "")

\* a task that heartbeats 3 times and reports progress 0, 0.5, 1.0: the
\* heartbeats first, or interleaved with the reports
ProgressScenarios ==
  {<<Heartbeat, Heartbeat, Heartbeat, TaskInstr("reportProgress", 0),
     TaskInstr("reportProgress", 5), TaskInstr("reportProgress", 10)>>,
   <<TaskInstr("reportProgress", 0), Heartbeat, TaskInstr("reportProgress", 5),
     Heartbeat, TaskInstr("reportProgress", 10), Heartbeat>>}

\* the task handlers enumerated
TaskPrograms ==
  UNION {[1..n -> TaskInstrs] : n \in 0..MaxCalls} \cup ProgressScenarios

\* callbacks the TaskContextImpl constructor was given
Wiring(p, h, s) == [progress |-> p, heartbeat |-> h, stream |-> s]

\* new TaskContextImpl(activation, onProgress, onHeartbeat) in
\* TaskWorker.handleActivation: no fourth argument
WorkerWiring == Wiring(TRUE, TRUE, FALSE)

\* new TaskContextImpl(...) by any other caller: each callback is optional
DirectWirings == {Wiring(TRUE, TRUE, TRUE), Wiring(FALSE, FALSE, FALSE)}

\* new Error('Progress must be between 0 and 1')
ProgressRange == Err("Error", "Progress must be between 0 and 1")

\* the error a callback throws when it throws
CallbackError == Err("Error", "callback")

\* the fields of the context a call can change
TaskCtxState(c, p, hb, ev, cb) ==
  [cancelled |-> c, progress |-> p, lastHeartbeat |-> hb, streamEvents |-> ev,
   callbacks |-> cb]

\* Date.now(): the time of the handler's n-th call
Now(n) == n

\* InternalStreamEvent
StreamEvent(type, data, timestamp) ==
  [type |-> type, data |-> data, timestamp |-> timestamp]

\* this.onX?.(arg): the invocation of a constructor callback, if it was given
\* one; the callback returns (ok) or throws
CallbackInvoked(wired, cb, arg) ==
  IF wired THEN Append(tCallbacks, [cb |-> cb, arg |-> arg]) ELSE tCallbacks

\* the handler after a call on its context: it goes on when the call
\* returned or when it catches the error, and otherwise ends with the error
HandlerAfterCall(threw, err) ==
  IF ~threw
    THEN tIp' = tIp + 1 /\ UNCHANGED <<tState, tOut>>
    ELSE \E catches \in BOOLEAN :
           IF catches
             THEN tIp' = tIp + 1 /\ UNCHANGED <<tState, tOut>>
             ELSE tIp' = tIp /\ tState' = "threw" /\ tOut' = Threw(err)

\* the record of the call just made
TaskCall(op, arg, threw, err, cbCalled, cbThrew) ==
  [n |-> tIp, op |-> op, arg |-> arg, threw |-> threw, err |-> err,
   cbCalled |-> cbCalled, cbThrew |-> cbThrew, requested |-> tCancelRequested,
   before |-> TaskCtxState(tCancelled, tProgress, tLastHeartbeat,
                           tStreamEvents, tCallbacks),
   after |-> TaskCtxState(tCancelled', tProgress', tLastHeartbeat',
                          tStreamEvents', tCallbacks')]

TaskAt(op) ==
  /\ tState = "running"
  /\ tIp <= Len(tProg)
  /\ tProg[tIp].op = op

\* the activation's handler, started with a new context
InitTask ==
  /\ workerKind = "task" /\ running = FALSE /\ activeExecutions = 0
  /\ pollTimer = "null" /\ timers = 0 /\ pollsInFlight = 0 /\ pollTick = 0
  /\ acts = <<>>
  /\ CtxIdle
  /\ NewClient
  /\ HandleIdle
  /\ NewMock
  /\ ShutdownIdle
  /\ tOwner \in {"worker", "direct"}
  /\ tWired \in (IF tOwner = "worker" THEN {WorkerWiring} ELSE DirectWirings)
  /\ tCancelled = FALSE
  /\ tProgress = 0
  /\ tLastHeartbeat = Now(0)
  /\ tStreamEvents = <<>>
  /\ tProg \in TaskPrograms
  /\ tIp = 1
  /\ tState = "running"
  /\ tOut = NoOutcome
  /\ tLast = NoTaskCall
  /\ tCallbacks = <<>>
  /\ tSucceeded = <<>>
  /\ tCancelRequested = FALSE
  /\ tReports = <<>>

\* ctx.reportProgress(progress)
reportProgress ==
  /\ TaskAt("reportProgress")
  /\ UNCHANGED <<tOwner, tWired, tCancelled, tLastHeartbeat, tStreamEvents, tProg,
                 tCancelRequested, tReports>>
  /\ LET p == tProg[tIp].arg
     IN  IF p < 0 \/ p > 10
           THEN /\ UNCHANGED <<tProgress, tCallbacks, tSucceeded>>
                /\ tLast' = TaskCall("reportProgress", p, TRUE, ProgressRange, FALSE, FALSE)
                /\ HandlerAfterCall(TRUE, ProgressRange)
           ELSE /\ tProgress' = p
                /\ tCallbacks' = CallbackInvoked(tWired.progress, "progress", p)
                /\ \E cbThrows \in {FALSE, tWired.progress} :
                     /\ tLast' = TaskCall("reportProgress", p, cbThrows,
                                          IF cbThrows THEN CallbackError ELSE NoErr,
                                          tWired.progress, cbThrows)
                     /\ tSucceeded' = IF cbThrows THEN tSucceeded
                          ELSE Append(tSucceeded, [cb |-> "progress", arg |-> p])
                     /\ HandlerAfterCall(cbThrows, CallbackError)
  /\ UNCHANGED <<workerVars, ctxVars, clientVars, handleVars, mockVars,
               shutdownVars>>

\* ctx.heartbeat()
heartbeat ==
  /\ TaskAt("heartbeat")
  /\ UNCHANGED <<tOwner, tWired, tCancelled, tProgress, tStreamEvents, tProg,
                 tCancelRequested, tReports>>
  /\ tLastHeartbeat' = Now(tIp)
  /\ tCallbacks' = CallbackInvoked(tWired.heartbeat, "heartbeat", "")
  /\ \E cbThrows \in {FALSE, tWired.heartbeat} :
       /\ tLast' = TaskCall("heartbeat", "", cbThrows,
                            IF cbThrows THEN CallbackError ELSE NoErr,
                            tWired.heartbeat, cbThrows)
       /\ tSucceeded' = IF cbThrows THEN tSucceeded
            ELSE Append(tSucceeded, [cb |-> "heartbeat", arg |-> ""])
       /\ HandlerAfterCall(cbThrows, CallbackError)
  /\ UNCHANGED <<workerVars, ctxVars, clientVars, handleVars, mockVars,
               shutdownVars>>

\* ctx.cancellationError()
cancellationError == TaskCancelled

\* a checkCancellation that clears the mark once it has reported it
checkCancellationClearing ==
  /\ TaskAt("checkCancellation")
  /\ UNCHANGED <<tOwner, tWired, tProgress, tLastHeartbeat, tStreamEvents,
                 tProg, tCallbacks, tSucceeded, tCancelRequested, tReports>>
  /\ tCancelled' = FALSE
  /\ tLast' = TaskCall("checkCancellation", "", tCancelled,
                       IF tCancelled THEN cancellationError ELSE NoErr, FALSE, FALSE)
  /\ HandlerAfterCall(tCancelled, cancellationError)
  /\ UNCHANGED <<workerVars, ctxVars, clientVars, handleVars, mockVars,
               shutdownVars>>

\* ctx.checkCancellation()
checkCancellation ==
  /\ TaskAt("checkCancellation")
  /\ UNCHANGED <<tOwner, tWired, tCancelled, tProgress, tLastHeartbeat, tStreamEvents,
                 tProg, tCallbacks, tSucceeded, tCancelRequested, tReports>>
  /\ tLast' = TaskCall("checkCancellation", "", tCancelled,
                       IF tCancelled THEN cancellationError ELSE NoErr, FALSE, FALSE)
  /\ HandlerAfterCall(tCancelled, cancellationError)
  /\ UNCHANGED <<workerVars, ctxVars, clientVars, handleVars, mockVars,
               shutdownVars>>

\* a streaming method that keeps only the latest event
streamMethodLatestOnly(op, method, data) ==
  LET event == StreamEvent(StreamTypeOf(method), data, Now(tIp))
  IN  /\ tStreamEvents' = <<event>>
      /\ tCallbacks' = CallbackInvoked(tWired.stream, "stream", event)
      /\ \E cbThrows \in {FALSE, tWired.stream} :
           /\ tLast' = TaskCall(op, tProg[tIp].arg, cbThrows,
                                IF cbThrows THEN CallbackError ELSE NoErr,
                                tWired.stream, cbThrows)
           /\ HandlerAfterCall(cbThrows, CallbackError)

\* streamToken / streamProgress / streamData / streamError, reached by the
\* handler's call `op` (the method itself, or stream(event))
streamMethod(op, method, data) ==
  LET event == StreamEvent(StreamTypeOf(method), data, Now(tIp))
  IN  /\ tStreamEvents' = Append(tStreamEvents, event)
      /\ tCallbacks' = CallbackInvoked(tWired.stream, "stream", event)
      /\ \E cbThrows \in {FALSE, tWired.stream} :
           /\ tLast' = TaskCall(op, tProg[tIp].arg, cbThrows,
                                IF cbThrows THEN CallbackError ELSE NoErr,
                                tWired.stream, cbThrows)
           /\ HandlerAfterCall(cbThrows, CallbackError)

\* ctx.stream(event): the switch over event.type
stream ==
  /\ TaskAt("stream")
  /\ UNCHANGED <<tOwner, tWired, tCancelled, tProgress, tLastHeartbeat, tProg,
                 tSucceeded, tCancelRequested, tReports>>
  /\ LET type == tProg[tIp].arg
     IN  streamMethod("stream", StreamMethod(type), StreamPayload(type))
  /\ UNCHANGED <<workerVars, ctxVars, clientVars, handleVars, mockVars,
               shutdownVars>>

\* ctx.streamToken(token), ctx.streamProgress(progress), ctx.streamData(data)
\* or ctx.streamError(error) called by the handler
streamDirect ==
  /\ UNCHANGED <<tOwner, tWired, tCancelled, tProgress, tLastHeartbeat, tProg,
                 tSucceeded, tCancelRequested, tReports>>
  /\ \E m \in StreamMethods :
       /\ TaskAt(m)
       /\ streamMethod(m, m, tProg[tIp].arg)
  /\ UNCHANGED <<workerVars, ctxVars, clientVars, handleVars, mockVars,
               shutdownVars>>

\* ctx._markCancelled(): no caller in the TaskWorker; the holder of a
\* directly constructed context can call it
markCancelled ==
  /\ tOwner = "direct"
  /\ tState = "running"
  /\ tCancelled' = TRUE
  /\ UNCHANGED <<tOwner, tWired, tProgress, tLastHeartbeat, tStreamEvents, tProg,
                 tIp, tState, tOut, tLast, tCallbacks, tSucceeded,
                 tCancelRequested, tReports>>
  /\ UNCHANGED <<workerVars, ctxVars, clientVars, handleVars, mockVars,
               shutdownVars>>

\* the engine receives a cancellation request for the task being handled
engineRequestsCancel ==
  /\ tOwner = "worker"
  /\ tState = "running"
  /\ ~tCancelRequested
  /\ tCancelRequested' = TRUE
  /\ UNCHANGED <<tOwner, tWired, tCancelled, tProgress, tLastHeartbeat,
                 tStreamEvents, tProg, tIp, tState, tOut, tLast, tCallbacks,
                 tSucceeded, tReports>>
  /\ UNCHANGED <<workerVars, ctxVars, clientVars, handleVars, mockVars,
               shutdownVars>>

\* the handler ends after its calls: it returns a value or throws an error
\* of its own
taskEnds ==
  /\ tState = "running"
  /\ tIp = Len(tProg) + 1
  /\ \/ \E v \in Values : tState' = "returned" /\ tOut' = Returned(v)
     \/ tState' = "threw" /\ tOut' = Threw(TaskFailed("m1", FALSE))
  /\ UNCHANGED <<tOwner, tWired, tCancelled, tProgress, tLastHeartbeat,
                 tStreamEvents, tProg, tIp, tLast, tCallbacks, tSucceeded,
                 tCancelRequested, tReports>>
  /\ UNCHANGED <<workerVars, ctxVars, clientVars, handleVars, mockVars,
               shutdownVars>>

\* TaskWorker.handleActivation after run() has settled, for a definition
\* without hooks: the completion it sends
taskDispatch ==
  /\ tOwner = "worker"
  /\ tState \in {"returned", "threw"}
  /\ tReports' = Append(tReports,
       IF tState = "returned" THEN taskCompleteWithSuccess(tOut.value)
                              ELSE taskCatch(tOut.err))
  /\ tState' = "reported"
  /\ UNCHANGED <<tOwner, tWired, tCancelled, tProgress, tLastHeartbeat,
                 tStreamEvents, tProg, tIp, tOut, tLast, tCallbacks, tSucceeded,
                 tCancelRequested>>
  /\ UNCHANGED <<workerVars, ctxVars, clientVars, handleVars, mockVars,
               shutdownVars>>

NextTask ==
  \/ reportProgress
  \/ heartbeat
  \/ checkCancellation
  \/ stream
  \/ streamDirect
  \/ markCancelled
  \/ engineRequestsCancel
  \/ taskEnds
  \/ taskDispatch

SpecTask == InitTask /\ [][NextTask]_vars

\* ========================================================================
\* Workflow handles: query, signal and cancel
\* ========================================================================
\* query / signal / cancel calls made on one handle
MaxHandleOps == 3

\* arguments of a query: undefined or a value
QueryArgs == {Absent, <<"v1">>}

\* JSON.stringify(args ?? null)
stringifyArgs(args) == IF args = Absent THEN serialize("null") ELSE serialize(args[1])

\* a call on a handle: it resolves or rejects, after an engine call or not
HandleOp(op, outcome, err, value, engineCalled) ==
  [op |-> op, outcome |-> outcome, err |-> err, value |-> value,
   engineCalled |-> engineCalled, bufBefore |-> hBuf]

\* new Error('Query not supported for child workflows ...'), new
\* Error('Signal is not yet implemented in the native bindings'), ...
NotSupported(op) ==
  Err("Error", CASE op = "query" -> "Query not supported"
                 [] op = "signal" -> "Signal not yet implemented"
                 [] op = "cancel" -> "Cancel not yet implemented")

\* a handle obtained from ctx.scheduleWorkflow or from client.startWorkflow
InitHandle ==
  /\ workerKind = "workflow" /\ running = FALSE /\ activeExecutions = 0
  /\ pollTimer = "null" /\ timers = 0 /\ pollsInFlight = 0 /\ pollTick = 0
  /\ acts = <<>>
  /\ CtxIdle
  /\ NewClient
  /\ TaskIdle
  /\ hOrigin \in {"child", "client"}
  /\ hBuf \in (IF hOrigin = "child" THEN {<<>>, <<"c1">>} ELSE {<<>>})
  /\ hEngineCalls = <<>>
  /\ hOps = <<>>
  /\ NewMock
  /\ ShutdownIdle

\* ChildWorkflowHandleImpl.query / signal / cancel: each throws
childHandleOp(op) ==
  /\ hOrigin = "child"
  /\ Len(hOps) < MaxHandleOps
  /\ hOps' = Append(hOps, HandleOp(op, "rejected", NotSupported(op), Absent, FALSE))
  /\ UNCHANGED <<hOrigin, hBuf, hEngineCalls>>
  /\ UNCHANGED <<workerVars, ctxVars, clientVars, taskCtxVars, mockVars,
               shutdownVars>>

\* WorkflowHandleImpl.query: await this.client.queryWorkflow(...), then
\* deserialize; the engine answers or the call rejects
clientHandleQuery ==
  /\ hOrigin = "client"
  /\ Len(hOps) < MaxHandleOps
  /\ \E args \in QueryArgs :
       /\ hEngineCalls' = Append(hEngineCalls,
            [call |-> "queryWorkflow", args |-> stringifyArgs(args)])
       /\ \/ \E v \in Values :
               hOps' = Append(hOps,
                 HandleOp("query", "resolved", NoErr, deserialize(serialize(v)), TRUE))
          \/ hOps' = Append(hOps,
               HandleOp("query", "rejected", OtherError("m1"), Absent, TRUE))
  /\ UNCHANGED <<hOrigin, hBuf>>
  /\ UNCHANGED <<workerVars, ctxVars, clientVars, taskCtxVars, mockVars,
               shutdownVars>>

\* WorkflowHandleImpl.signal and WorkflowHandleImpl.cancel: each throws
\* 'not yet implemented in the native bindings'
clientHandleSignalCancel(op) ==
  /\ hOrigin = "client"
  /\ Len(hOps) < MaxHandleOps
  /\ hOps' = Append(hOps, HandleOp(op, "rejected", NotSupported(op), Absent, FALSE))
  /\ UNCHANGED <<hOrigin, hBuf, hEngineCalls>>
  /\ UNCHANGED <<workerVars, ctxVars, clientVars, taskCtxVars, mockVars,
               shutdownVars>>

NextHandle ==
  \/ \E op \in {"query", "signal", "cancel"} : childHandleOp(op)
  \/ clientHandleQuery
  \/ \E op \in {"signal", "cancel"} : clientHandleSignalCancel(op)

SpecHandle == InitHandle /\ [][NextHandle]_vars

\* ========================================================================
\* MockWorkflowContext: queueing and handing out task results
\* ========================================================================
InitMock ==
  /\ workerKind = "workflow" /\ running = FALSE /\ activeExecutions = 0
  /\ pollTimer = "null" /\ timers = 0 /\ pollsInFlight = 0 /\ pollTick = 0
  /\ acts = <<>>
  /\ CtxIdle
  /\ NewClient
  /\ TaskIdle
  /\ HandleIdle
  /\ NewMock
  /\ ShutdownIdle

\* mockTaskResult(taskDef, result) and mockTaskResultByName(taskName, result):
\* existing = get(name) ?? []; existing.push(result); set(name, existing)
mockTaskResult(name, result) ==
  /\ mOps < MaxMockOps
  /\ mOps' = mOps + 1
  /\ LET existing == IF mTaskResults[name].has THEN mTaskResults[name].list ELSE <<>>
     IN  mTaskResults' = [mTaskResults EXCEPT ![name] = Entry(Append(existing, result))]
  /\ mQueued' = [mQueued EXCEPT ![name] = Append(@, result)]
  /\ mLast' = [NoMockCall EXCEPT !.op = "mockTaskResult", !.name = name,
                                 !.result = result,
                                 !.executedBefore = executedTasks]
  /\ UNCHANGED executedTasks
  /\ UNCHANGED <<workerVars, ctxVars, clientVars, taskCtxVars, handleVars,
               shutdownVars>>

\* a schedule that hands out the result queued last (pop instead of shift)
mockScheduleNewestFirst(method, name, input) ==
  /\ mOps < MaxMockOps
  /\ mOps' = mOps + 1
  /\ LET results == mTaskResults[name]
         call == [NoMockCall EXCEPT !.op = method, !.name = name,
                                    !.input = input,
                                    !.executedBefore = executedTasks]
     IN  IF ~results.has \/ Len(results.list) = 0
           THEN /\ mLast' = [call EXCEPT !.threw = TRUE]
                /\ UNCHANGED <<mTaskResults, executedTasks>>
           ELSE LET result == results.list[Len(results.list)] IN
                /\ mTaskResults' = [mTaskResults EXCEPT ![name] =
                     Entry(SubSeq(results.list, 1, Len(results.list) - 1))]
                /\ executedTasks' = Append(executedTasks, TrackedTask(name, input, result))
                /\ mLast' = [call EXCEPT !.result = result]
  /\ UNCHANGED mQueued
  /\ UNCHANGED <<workerVars, ctxVars, clientVars, taskCtxVars, handleVars,
               shutdownVars>>

\* schedule(taskDef, input), scheduleByName(taskName, input) and
\* scheduleAsync(taskDef, input): throw when no result is queued, else
\* results.shift() and executedTasks.push(...)
mockSchedule(method, name, input) ==
  /\ mOps < MaxMockOps
  /\ mOps' = mOps + 1
  /\ LET results == mTaskResults[name]
         call == [NoMockCall EXCEPT !.op = method, !.name = name,
                                    !.input = input,
                                    !.executedBefore = executedTasks]
     IN  IF ~results.has \/ Len(results.list) = 0
           THEN /\ mLast' = [call EXCEPT !.threw = TRUE]
                /\ UNCHANGED <<mTaskResults, executedTasks>>
           ELSE LET result == Head(results.list) IN
                /\ mTaskResults' = [mTaskResults EXCEPT ![name] = Entry(Tail(results.list))]
                /\ executedTasks' = Append(executedTasks, TrackedTask(name, input, result))
                /\ mLast' = [call EXCEPT !.result = result]
  /\ UNCHANGED mQueued
  /\ UNCHANGED <<workerVars, ctxVars, clientVars, taskCtxVars, handleVars,
               shutdownVars>>

NextMock ==
  \/ \E name \in MockTaskNames, result \in MockResults : mockTaskResult(name, result)
  \/ \E method \in ScheduleMethods, name \in MockTaskNames, input \in MockInputs :
       mockSchedule(method, name, input)

SpecMock == InitMock /\ [][NextMock]_vars

\* ========================================================================
\* FlovynClient.stop(): draining the workers
\* ========================================================================
\* a client on which one workflow was registered and start() has returned:
\* both workers are polling
InitShutdown ==
  /\ workerKind = "workflow" /\ running = FALSE /\ activeExecutions = 0
  /\ pollTimer = "null" /\ timers = 0 /\ pollsInFlight = 0 /\ pollTick = 0
  /\ acts = <<>>
  /\ CtxIdle
  /\ TaskIdle
  /\ HandleIdle
  /\ NewMock
  /\ started = TRUE
  /\ nativeClient = 1
  /\ clientWorkers = 1
  /\ registeredWorkflows = [n \in Names |-> 1]
  /\ registeredTasks = [n \in Names |-> 0]
  /\ firstRegistered = [m \in {"workflows", "tasks"} |->
                          [n \in Names |-> IF m = "workflows" THEN 1 ELSE 0]]
  /\ startsInFlight = 0
  /\ stopsInFlight = 0
  /\ pairs = <<[running |-> TRUE, workflows |-> registeredWorkflows,
                tasks |-> registeredTasks]>>
  /\ lastCall = [NoCall EXCEPT !.op = "start", !.outcome = "pending",
                               !.createdWorkers = TRUE,
                               !.workflowsBefore = registeredWorkflows,
                               !.tasksBefore = registeredTasks]
  /\ sPc = "idle"
  /\ sElapsed = 0
  /\ sActive = [k \in WorkerKinds |-> 0]
  /\ sPolls = [k \in WorkerKinds |-> 1]
  /\ sExit = "none"

\* this.workflowWorker?.getActiveExecutions() ?? 0 and the same of the task
\* worker, read through the fields of the client
activeRead(k) == IF clientWorkers = 0 THEN 0 ELSE sActive[k]

\* the native poll of worker k returns: an activation is counted and handled
\* whether or not the worker was stopped meanwhile; a running worker polls
\* again
workerPollReturns(k) ==
  /\ sPolls[k] > 0
  /\ \/ /\ sActive[k] < MaxHandlers
        /\ sActive' = [sActive EXCEPT ![k] = @ + 1]
     \/ UNCHANGED sActive
  /\ sPolls' = [sPolls EXCEPT ![k] = IF pairs[1].running THEN 1 ELSE 0]
  /\ UNCHANGED <<sPc, sElapsed, sExit>>
  /\ UNCHANGED <<workerVars, ctxVars, clientVars, taskCtxVars, handleVars, mockVars>>

\* handleActivation of worker k settles: activeExecutions--
workerHandlerSettles(k) ==
  /\ sActive[k] > 0
  /\ sActive' = [sActive EXCEPT ![k] = @ - 1]
  /\ UNCHANGED <<sPc, sElapsed, sPolls, sExit>>
  /\ UNCHANGED <<workerVars, ctxVars, clientVars, taskCtxVars, handleVars, mockVars>>

\* the waiting loop of stop() from its test to the next await, or to the end
\* of stop(), with `elapsed` intervals gone since startTime
stopLoop(elapsed) ==
  IF elapsed >= StopTimeout
    THEN /\ sPc' = "returned" /\ sExit' = "deadline"
         /\ stopsInFlight' = 0
         /\ StopEnds
    ELSE IF activeRead("workflow") = 0 /\ activeRead("task") = 0
      THEN /\ sPc' = "returned" /\ sExit' = "drained"
           /\ stopsInFlight' = 0
           /\ StopEnds
      ELSE /\ sPc' = "sleep" /\ sExit' = sExit
           /\ stopsInFlight' = 1
           /\ UNCHANGED <<nativeClient, clientWorkers, started>>

\* client.stop() on the started client, up to its first await or its return
stopBegins ==
  /\ sPc = "idle"
  /\ started
  /\ lastCall' = [Call("stop", "", 0) EXCEPT !.outcome = "ok"]
  /\ pairs' = WorkersStopped
  /\ sElapsed' = 0
  /\ stopLoop(0)
  /\ UNCHANGED <<sActive, sPolls>>
  /\ UNCHANGED <<registeredWorkflows, registeredTasks, firstRegistered, startsInFlight>>
  /\ UNCHANGED <<workerVars, ctxVars, taskCtxVars, handleVars, mockVars>>

\* a waiting loop that tests the active counts only
sleepResolvesNoDeadline(dt) ==
  /\ sPc = "sleep"
  /\ sElapsed' = IF sElapsed + dt > StopTimeout THEN StopTimeout ELSE sElapsed + dt
  /\ IF activeRead("workflow") = 0 /\ activeRead("task") = 0
       THEN /\ sPc' = "returned" /\ sExit' = "drained"
            /\ stopsInFlight' = 0
            /\ StopEnds
       ELSE /\ sPc' = "sleep" /\ sExit' = sExit
            /\ stopsInFlight' = 1
            /\ UNCHANGED <<nativeClient, clientWorkers, started>>
  /\ UNCHANGED <<sActive, sPolls>>
  /\ UNCHANGED <<registeredWorkflows, registeredTasks, firstRegistered,
                 startsInFlight, pairs, lastCall>>
  /\ UNCHANGED <<workerVars, ctxVars, taskCtxVars, handleVars, mockVars>>

\* await sleep(100) resolves after dt intervals (one or more) and the loop
\* goes on
sleepResolves(dt) ==
  /\ sPc = "sleep"
  /\ sElapsed' = IF sElapsed + dt > StopTimeout THEN StopTimeout ELSE sElapsed + dt
  /\ stopLoop(IF sElapsed + dt > StopTimeout THEN StopTimeout ELSE sElapsed + dt)
  /\ UNCHANGED <<sActive, sPolls>>
  /\ UNCHANGED <<registeredWorkflows, registeredTasks, firstRegistered,
                 startsInFlight, pairs, lastCall>>
  /\ UNCHANGED <<workerVars, ctxVars, taskCtxVars, handleVars, mockVars>>

NextShutdown ==
  \/ \E k \in WorkerKinds : workerPollReturns(k)
  \/ \E k \in WorkerKinds : workerHandlerSettles(k)
  \/ stopBegins
  \/ \E dt \in {1, 2} : sleepResolves(dt)

\* the host runs the callback of the timeout of sleep(100)
SpecShutdown ==
  InitShutdown /\ [][NextShutdown]_vars /\ WF_vars(\E dt \in {1, 2} : sleepResolves(dt))

\* ========================================================================
\* Properties of the worker (C3 and C20 under Spec, the others under
\* SpecDispatch)
\* ========================================================================
Acts == 1..Len(acts)

\* reports of activation a that reached the engine
Delivered(a) ==
  {k \in 1..Len(acts[a].reports) : acts[a].reports[k].fate \in {"ok", "late"}}

\* C1: for every activation handed to the dispatcher, at most one completion
\* report reaches the engine, whatever the handler, the hooks and the report
\* call itself do.
C1_AtMostOneReport == \A a \in Acts : Cardinality(Delivered(a)) <= 1

\* C2: no accepted activation finishes being handled without a completion
\* report: once handleActivation has settled, at least one report call has
\* been made for the activation.
C2_SettledHasReport ==
  \A a \in Acts : acts[a].pc = "done" => Len(acts[a].reports) >= 1

\* C3: the number of activations being handled at once never exceeds
\* maxConcurrent.
C3_WithinMaxConcurrent ==
  /\ activeExecutions <= maxConcurrent
  /\ Cardinality({a \in Acts : acts[a].pc # "done"}) <= maxConcurrent

\* C7: for an activation of a registered workflow kind the report made for
\* the handler outcome is determined by that outcome: return -> Completed
\* with the serialized value, Suspended -> Suspended with the signal's
\* commands, Cancelled -> Cancelled with the signal's reason, any other
\* throw -> Failed.
C7_ReportFollowsOutcome ==
  \A a \in Acts :
    (workerKind = "workflow" /\ acts[a].registered /\ acts[a].outcome.kind # "none")
      => /\ Len(acts[a].reports) >= 1
         /\ LET c == acts[a].reports[1].completion
                o == acts[a].outcome
            IN  CASE o.kind = "return" ->
                       c.status = "Completed" /\ c.output = serialize(o.value)
                  [] o.err.type = "WorkflowSuspended" ->
                       c.status = "Suspended" /\ c.commands = <<o.err.commands>>
                  [] o.err.type = "WorkflowCancelled" ->
                       /\ c.status = "Cancelled"
                       /\ o.err.reason # Absent => c.reason = o.err.reason
                  [] OTHER -> c.status = "Failed"

\* C8: a workflow handler that raised DeterminismViolation is reported as
\* Failed marked non-retryable, any other unrecognised exception as Failed
\* marked retryable.
C8_RetryClassification ==
  \A a \in Acts :
    (workerKind = "workflow" /\ acts[a].outcome.kind = "throw" /\ Len(acts[a].reports) >= 1)
      => LET c == acts[a].reports[1].completion
             t == acts[a].outcome.err.type
         IN  /\ t = "DeterminismViolation" =>
                  c.status = "Failed" /\ c.retryable = <<FALSE>>
             /\ t \in {"Error", "NonError"} =>
                  c.status = "Failed" /\ c.retryable = <<TRUE>>

\* C9: an activation of an unregistered kind is answered with Failed marked
\* non-retryable, and neither a context nor a handler or hook is involved.
C9_UnknownKind ==
  \A a \in Acts :
    ~acts[a].registered
      => /\ Len(acts[a].reports) >= 1
         /\ acts[a].reports[1].completion.status = "Failed"
         /\ acts[a].reports[1].completion.retryable = <<FALSE>>
         /\ ~acts[a].ctxBuilt
         /\ acts[a].called = <<>>

\* C20: while the worker is stopped (stop() has returned and start() has not
\* been called again) it begins handling no new activation, not even one
\* returned by a poll that was in flight when stop() was called.
C20_StoppedAcceptsNothing == [][Len(acts') > Len(acts) => running]_vars

\* ========================================================================
\* Properties of one workflow activation (checked under SpecCtx)
\* ========================================================================
NoSuspendedCaught ==
  \A k \in 1..Len(caught) : caught[k].type # "WorkflowSuspended"

\* C4: when the handler awaits a pending handle, the activation is reported
\* as Suspended and the handler code has not observed the signal.
C4_SuspendedReachesDispatcher ==
  (hstate = "reported" /\ \E k \in 1..Len(raised) : raised[k].by = "await")
    => ctxReports[1].status = "Suspended" /\ NoSuspendedCaught

\* C5: a Suspended report carries exactly the commands emitted during the
\* activation, in emission order.
C5_SuspendedCarriesAllCommands ==
  (hstate = "reported" /\ ctxReports[1].status = "Suspended" /\ NoSuspendedCaught)
    => ctxReports[1].commands = <<emitted>>

\* C6: a terminal report delivers the commands emitted during the
\* activation.
C6_TerminalCarriesCommands ==
  (hstate = "reported" /\ ctxReports[1].status \in {"Completed", "Failed", "Cancelled"})
    => (emitted = <<>> \/ ctxReports[1].commands = <<emitted>>)

\* number of schedule instructions the handler starts with
LeadingSchedules(p) ==
  Cardinality({i \in 1..Len(p) : \A j \in 1..i : p[j].op = "schedule"})

\* C10: schedule() and scheduleWorkflow() never raise Suspended at the
\* call: when the first Suspended of an activation is raised, every
\* scheduling call the handler issues before its first await has been made.
C10_ScheduleNeverSuspends ==
  /\ \A k \in 1..Len(raised) : raised[k].by # "schedule"
  /\ raised # <<>> => raised[1].schedCalls >= LeadingSchedules(prog)

\* C10 witness: a handler scheduled twice, the first operation pending, and
\* the first Suspended was raised at the await after both engine calls.
C10_Witness ==
  /\ LeadingSchedules(prog) = 2
  /\ raised # <<>>
  /\ raised[1].by \in {"await", "all"}
  /\ raised[1].schedCalls = 2
  /\ objs[1].res.status = "pending"

\* ========================================================================
\* Properties of handles and primitives (checked under SpecCtx)
\* ========================================================================
Yields == 1..Len(yields)

IsHandle(h) == objs[h].kind \in {"task", "child"}

C12_ResultIdempotent ==
  \A i, j \in Yields :
    (i < j /\ yields[i].h = yields[j].h /\ IsHandle(yields[i].h)
       /\ yields[i].err.type # "WorkflowSuspended")
      => /\ yields[j].threw = yields[i].threw
         /\ yields[j].value = yields[i].value
         /\ yields[j].err = yields[i].err
         /\ yields[j].calls = 0

\* C12 witness: a task handle yielded a value, the engine's state of the
\* task changed, and the handle was asked again.
C12_Witness ==
  \E i, j \in Yields :
    /\ i < j /\ yields[i].h = yields[j].h
    /\ objs[yields[i].h].kind = "task"
    /\ ~yields[i].threw /\ ~yields[i].engineChanged
    /\ yields[j].engineChanged

\* C13: an operation the engine reports as already resolved gives the
\* handler its deserialized value, whatever the value is, and raises
\* nothing.
C13_ResolvedYieldsValue ==
  \A k \in Yields :
    answers[yields[k].h].status = "completed" => ~yields[k].threw

\* the typed failure for a failed operation of kind k with engine answer a
TypedFailure(k, a) ==
  CASE k = "task" -> TaskFailed(a.error[1], FALSE)
    [] k = "child" -> ChildWorkflowFailed(a.error[1])
    [] a.status = "timed_out" -> PromiseTimeout
    [] OTHER -> PromiseRejected(a.error[1])

C15_ReplayIdentical ==
  /\ prevRun # <<>> =>
        /\ Len(ops) <= Len(prevRun[1].ops)
        /\ \A i \in 1..Len(ops) : ops[i] = prevRun[1].ops[i]
  /\ \A i \in 1..Len(ops) :
        ops[i].op = "scheduleChildWorkflow" =>
          ops[i].name =
            <<ops[i].kind, "-",
              Cardinality({j \in 1..i : ops[j].op = "scheduleChildWorkflow"
                                          /\ ops[j].kind = ops[i].kind})>>

\* C15 witness: the second activation has scheduled, as the first did, two
\* children of one kind around a child of the other kind.
C15_Witness ==
  /\ prevRun # <<>>
  /\ Len(ops) = 3
  /\ ops[1].name = <<"wfA", "-", 1>>
  /\ ops[2].name = <<"wfB", "-", 1>>
  /\ ops[3].name = <<"wfA", "-", 2>>

\* ========================================================================
\* Properties of the client (checked under SpecClient)
\* ========================================================================
Registrations == {"registerWorkflow", "registerTask"}

RegistryUnchanged ==
  /\ registeredWorkflows = lastCall.workflowsBefore
  /\ registeredTasks = lastCall.tasksBefore

\* C16: a registration made after start() was invoked and before the
\* following stop() has completed, also one made while start() still waits
\* for the worker's registration with the server, is rejected and leaves the
\* registry unchanged.
C16_NoRegistrationAfterStart ==
  (lastCall.op \in Registrations /\ (lastCall.started \/ lastCall.startsInFlight > 0))
    => lastCall.outcome # "ok" /\ RegistryUnchanged

C18_OneStart ==
  /\ Cardinality({k \in 1..Len(pairs) : pairs[k].running}) <= 1
  /\ (lastCall.op = "start" /\ (lastCall.started \/ lastCall.startsInFlight > 0))
       => lastCall.outcome = AlreadyStarted /\ ~lastCall.createdWorkers

\* C19: while isStarted() is false, startWorkflow, getWorkflowHandle,
\* resolvePromise, rejectPromise and signalWorkflow fail with 'Client is not
\* started' and call the engine not at all.
C19_NotStartedCallsFail ==
  (lastCall.op \in ClientOps /\ ~lastCall.started)
    => lastCall.outcome = NotStarted /\ ~lastCall.engineCalled

\* ========================================================================
\* Properties of the task dispatcher (checked under SpecDispatch)
\* ========================================================================
\* activations of a registered task kind whose handler threw and for which
\* the catch block has made its report
TaskThrewReported ==
  {a \in Acts : /\ workerKind = "task"
                /\ acts[a].outcome.kind = "throw"
                /\ Len(acts[a].reports) >= 1}

\* C22: for a task activation, the report made for an error the handler did
\* not catch is Cancelled for TaskCancelled, Failed with the error's own
\* retryable flag for TaskFailed, and Failed with retryable = true for any
\* other thrown value.
C22_TaskErrorClassification ==
  \A a \in TaskThrewReported :
    LET c == acts[a].reports[1].completion
        e == acts[a].outcome.err
    IN  CASE e.type = "TaskCancelled" -> c.status = "Cancelled"
          [] e.type = "TaskFailed" ->
               c.status = "Failed" /\ c.retryable = <<e.retryable>>
          [] OTHER -> c.status = "Failed" /\ c.retryable = <<TRUE>>

\* a handler threw a TaskFailed marked non-retryable and the report is made
C22_Witness ==
  \E a \in TaskThrewReported :
    /\ acts[a].outcome.err.type = "TaskFailed"
    /\ acts[a].outcome.err.retryable = FALSE
    /\ acts[a].reports[1].completion.retryable = <<FALSE>>

\* ========================================================================
\* stop() and the handlers in flight (checked under SpecStop)
\* ========================================================================
\* C21: stop() has no effect on the handlers in flight: the step that stops
\* the worker changes no activation being handled (no cancellation flag is
\* set on its context, its position and outcome stay) nor the active count,
\* and while the worker is stopped every handler in flight can still take
\* its next step, the completion call included.
C21_StopLeavesHandlers ==
  /\ [][(running /\ ~running')
          => (acts' = acts /\ activeExecutions' = activeExecutions)]_vars
  /\ [](\A a \in Acts : (~running /\ acts[a].pc # "done") => ENABLED dispatchStep(a))

\* an activation accepted by the running worker whose handler returned and
\* whose Completed report was made, and delivered, after stop()
C21_Witness ==
  \E a \in Acts :
    /\ ~running
    /\ acts[a].acceptedRunning
    /\ ~acts[a].cancelled
    /\ acts[a].outcome.kind = "return"
    /\ acts[a].pc = "done"
    /\ Len(acts[a].reports) = 1
    /\ ~acts[a].reports[1].whileRunning
    /\ acts[a].reports[1].fate = "ok"
    /\ acts[a].reports[1].completion.status = "Completed"

\* ========================================================================
\* Properties of one task activation (checked under SpecTask)
\* ========================================================================
IsStreamCall(c) == c.op = "stream" \/ c.op \in StreamMethods

\* the callback invocations of one callback, in order
CallbacksOf(cbs, log) == SelectSeq(log, LAMBDA i : i.cb \in cbs)

\* C23: when the engine holds a cancellation request for a task activation
\* that the TaskWorker is handling, a checkCancellation() call the handler
\* makes afterwards raises TaskCancelled, and when the handler does not
\* catch it the task is reported as Cancelled.
C23_RequestedCancellationObserved ==
  (tOwner = "worker" /\ tLast.op = "checkCancellation" /\ tLast.requested)
    => /\ tLast.threw
       /\ tLast.err = TaskCancelled
       /\ (tState = "reported" /\ tOut = Threw(tLast.err))
            => tReports = <<taskCompleteWithCancellation>>

\* C24: checkCancellation() raises TaskCancelled exactly when the context
\* was marked cancelled before the call; an unmarked context's call changes
\* nothing; the mark, once set by _markCancelled(), is never cleared, and
\* nothing else sets it.
C24_CheckCancellationIffMarked ==
  /\ [](tLast.op = "checkCancellation"
          => /\ tLast.threw <=> tLast.before.cancelled
             /\ tLast.threw => tLast.err = TaskCancelled
             /\ tLast.after = tLast.before)
  /\ [][tCancelled => tCancelled']_vars
  /\ [][(~tCancelled /\ tCancelled') => markCancelled]_vars

\* a marked context raised TaskCancelled at checkCancellation()
C24_Witness ==
  /\ tLast.op = "checkCancellation"
  /\ tLast.before.cancelled
  /\ tLast.threw
  /\ tLast.err = TaskCancelled

\* C25: reportProgress(p) with p < 0 or p > 1 fails, leaves the latest
\* progress unchanged and invokes no callback; with 0 <= p <= 1 it returns
\* normally, the latest progress is p and the progress callback (if the
\* context has one) was invoked exactly once, with p.
C25_ReportProgressRange ==
  tLast.op = "reportProgress"
    => IF tLast.arg < 0 \/ tLast.arg > 10
         THEN /\ tLast.threw
              /\ tLast.after.progress = tLast.before.progress
              /\ tLast.after.callbacks = tLast.before.callbacks
         ELSE /\ ~tLast.threw
              /\ tLast.after.progress = tLast.arg
              /\ tLast.after.callbacks =
                   IF tWired.progress
                     THEN Append(tLast.before.callbacks,
                                 [cb |-> "progress", arg |-> tLast.arg])
                     ELSE tLast.before.callbacks

\* C26: the progress and heartbeat callbacks observe exactly the handler's
\* successful reportProgress and heartbeat calls, in their order: nothing
\* lost, duplicated, added or reordered.
C26_CallbacksFollowCalls ==
  (tWired.progress /\ tWired.heartbeat)
    => CallbacksOf({"progress", "heartbeat"}, tCallbacks) = tSucceeded

\* C27: the stream log is append-only and ordered: every step keeps the
\* earlier events in place, and every stream / streamToken / streamProgress
\* / streamData / streamError call appends exactly one event of its type at
\* the end, hands that event once to the stream callback (if the context has
\* one) and changes neither the progress value nor the cancelled flag.
C27_StreamLogAppendOnly ==
  /\ [](IsStreamCall(tLast)
          => LET b == tLast.before
                 a == tLast.after
                 n == Len(a.streamEvents)
             IN  /\ n = Len(b.streamEvents) + 1
                 /\ SubSeq(a.streamEvents, 1, n - 1) = b.streamEvents
                 /\ a.streamEvents[n].type =
                      (IF tLast.op = "stream" THEN tLast.arg
                                              ELSE StreamTypeOf(tLast.op))
                 /\ a.streamEvents[n].data = StreamPayload(a.streamEvents[n].type)
                 /\ a.callbacks =
                      IF tWired.stream
                        THEN Append(b.callbacks,
                                    [cb |-> "stream", arg |-> a.streamEvents[n]])
                        ELSE b.callbacks
                 /\ a.progress = b.progress
                 /\ a.cancelled = b.cancelled)
  /\ [][/\ Len(tStreamEvents') >= Len(tStreamEvents)
        /\ SubSeq(tStreamEvents', 1, Len(tStreamEvents)) = tStreamEvents]_vars

\* two events of different types are in the log in the order of the calls,
\* each handed once to the stream callback
C27_Witness ==
  /\ tWired.stream
  /\ Len(tStreamEvents) = 2
  /\ tStreamEvents[1].type # tStreamEvents[2].type
  /\ IsStreamCall(tLast)
  /\ CallbacksOf({"stream"}, tCallbacks) =
       <<[cb |-> "stream", arg |-> tStreamEvents[1]],
         [cb |-> "stream", arg |-> tStreamEvents[2]]>>

\* C28: a progress, heartbeat or stream callback that throws does not fail
\* the call that invoked it: reportProgress, heartbeat and the streaming
\* calls return normally to the handler.
C28_CallbackNeverFailsCall == tLast.cbThrew => ~tLast.threw

\* C29: for a task handled by the TaskWorker, every stream event the handler
\* emits is handed to a stream callback of the worker, as progress updates
\* and heartbeats are handed to theirs.
C29_WorkerForwardsStream ==
  tOwner = "worker"
    => /\ Len(CallbacksOf({"stream"}, tCallbacks)) = Len(tStreamEvents)
       /\ \A k \in 1..Len(tStreamEvents) :
            CallbacksOf({"stream"}, tCallbacks)[k].arg = tStreamEvents[k]

\* ========================================================================
\* Properties of workflow handles (checked under SpecHandle)
\* ========================================================================
\* C30: query, signal and cancel on a child-workflow handle obtained inside a
\* workflow always fail, emit no command and make no engine call; the same
\* three operations on a handle obtained by an external client are
\* supported: each is carried out through a direct engine call.
C30_HandleAsymmetry ==
  \A k \in 1..Len(hOps) :
    IF hOrigin = "child"
      THEN /\ hOps[k].outcome = "rejected"
           /\ ~hOps[k].engineCalled
           /\ hEngineCalls = <<>>
           /\ hBuf = hOps[k].bufBefore
      ELSE /\ hOps[k].engineCalled
           /\ hOps[k].err # NotSupported(hOps[k].op)

\* ========================================================================
\* Properties of the poll loop (C32 under Spec, C33 under SpecLoop)
\* ========================================================================
\* accepted activations whose handling has not settled
Unsettled == {a \in Acts : acts[a].pc # "done"}

\* C32: a worker has at most one poll outstanding at a time, whatever
\* start() and stop() calls were made: one native poll call in flight or one
\* pending poll timer, never two.
C32_OnePollOutstanding == pollsInFlight + timers <= 1

\* C33: the active count equals the number of accepted activations whose
\* handling has not settled: accepting adds exactly one, a settling
\* (resolved or rejected) takes exactly one away, and it is never negative.
C33_ActiveCountExact ==
  /\ [](activeExecutions = Cardinality(Unsettled) /\ activeExecutions >= 0)
  /\ [][/\ Len(acts') > Len(acts) => activeExecutions' = activeExecutions + 1
        /\ (\E a \in Acts : acts[a].pc # "done" /\ acts'[a].pc = "done")
             => activeExecutions' = activeExecutions - 1]_vars

\* one handling has rejected, another is still going on, and the count is 1
C33_Witness ==
  \E a, b \in Acts :
    /\ acts[a].settled = "rejected"
    /\ acts[b].pc # "done"
    /\ activeExecutions = 1

\* ========================================================================
\* Lifecycle hooks of a task activation (checked under SpecDispatch)
\* ========================================================================
\* what handleActivation has invoked so far for an activation record
CalledOf(act) == {act.called[i] : i \in 1..Len(act.called)}

\* statuses of the completion calls made so far for an activation record
StatusesOf(act) == {act.reports[i].completion.status : i \in 1..Len(act.reports)}

\* the step invokes `what` for activation a
Invokes(a, what) ==
  /\ Len(acts'[a].called) > (IF a \in Acts THEN Len(acts[a].called) ELSE 0)
  /\ acts'[a].called[Len(acts'[a].called)] = what

\* the step makes a completion call with one of `statuses` for activation a
Sends(a, statuses) ==
  /\ Len(acts'[a].reports) > (IF a \in Acts THEN Len(acts[a].reports) ELSE 0)
  /\ acts'[a].reports[Len(acts'[a].reports)].completion.status \in statuses

\* C39: for a task activation with lifecycle hooks, run begins only after
\* onStart has completed; onSuccess is invoked only after run has returned
\* normally and before the Completed report is sent; onFailure is invoked
\* only after something in the invocation has thrown and before the Failed
\* or Cancelled report is sent.
C39_HookOrdering ==
  /\ [](workerKind = "task" =>
          \A a \in Acts :
            LET act == acts[a] IN
              /\ (act.hooks.onStart /\ "run" \in CalledOf(act))
                   => /\ act.called[1] = "onStart" /\ act.called[2] = "run"
                      /\ act.pc # "onStart"
              /\ "onSuccess" \in CalledOf(act) => act.outcome.kind = "return"
              /\ "onFailure" \in CalledOf(act) => act.err # NoErr
              /\ (act.hooks.onSuccess /\ "Completed" \in StatusesOf(act))
                   => "onSuccess" \in CalledOf(act) /\ act.pc # "onSuccess"
              /\ (act.hooks.onFailure /\ act.err # NoErr /\ act.err.isError
                    /\ StatusesOf(act) \cap {"Failed", "Cancelled"} # {})
                   => "onFailure" \in CalledOf(act) /\ act.pc # "onFailure")
  /\ [][workerKind = "task" =>
          \A a \in 1..Len(acts') :
            /\ Invokes(a, "run") /\ acts'[a].hooks.onStart
                 => a \in Acts /\ acts[a].pc = "onStart"
            /\ Invokes(a, "onSuccess")
                 => /\ acts'[a].outcome.kind = "return"
                    /\ "Completed" \notin StatusesOf(acts'[a])
            /\ Invokes(a, "onFailure")
                 => /\ acts'[a].err # NoErr
                    /\ StatusesOf(acts'[a]) \cap {"Failed", "Cancelled"} = {}
            /\ Sends(a, {"Completed"}) /\ acts'[a].hooks.onSuccess
                 => a \in Acts /\ acts[a].pc = "onSuccess"
            /\ Sends(a, {"Failed", "Cancelled"}) /\ a \in Acts
                 /\ acts'[a].hooks.onFailure /\ acts'[a].err.isError
                 => acts[a].pc = "onFailure"]_vars

\* a task activation with all three hooks ran them in order and its
\* Completed report was delivered
C39_Witness ==
  /\ workerKind = "task"
  /\ \E a \in Acts :
       /\ acts[a].hooks = [onStart |-> TRUE, onSuccess |-> TRUE, onFailure |-> TRUE]
       /\ acts[a].called = <<"onStart", "run", "onSuccess">>
       /\ acts[a].settled = "resolved"
       /\ acts[a].reports[1].completion.status = "Completed"

\* C40: for one task activation at most one of the onSuccess and onFailure
\* hooks is invoked.
C40_SuccessXorFailureHook ==
  workerKind = "task" =>
    \A a \in Acts :
      ~("onSuccess" \in CalledOf(acts[a]) /\ "onFailure" \in CalledOf(acts[a]))

\* ========================================================================
\* Properties of the mock workflow context (checked under SpecMock)
\* ========================================================================
\* entries of a list of tracked tasks that belong to task name n, in order
TrackedOf(tracked, n) == SelectSeq(tracked, LAMBDA e : e.taskName = n)

\* C31: mocked task results are handed out first in, first out per task
\* name: the k-th schedule served for a name returns the k-th result queued
\* for that name and appends one entry to executedTasks, in call order; a
\* schedule for a name with no queued result left fails and records nothing.
C31_MockResultsFifo ==
  /\ \A n \in MockTaskNames :
       LET served == TrackedOf(executedTasks, n) IN
         /\ Len(served) <= Len(mQueued[n])
         /\ \A k \in 1..Len(served) : served[k].result = mQueued[n][k]
  /\ mLast.op \in ScheduleMethods =>
       LET n == mLast.name
           k == Len(TrackedOf(mLast.executedBefore, n)) + 1
       IN  IF k > Len(mQueued[n])
             THEN mLast.threw /\ executedTasks = mLast.executedBefore
             ELSE /\ ~mLast.threw
                  /\ mLast.result = mQueued[n][k]
                  /\ executedTasks = Append(mLast.executedBefore,
                       TrackedTask(n, mLast.input, mQueued[n][k]))

\* two different results queued for one name were handed out in the order
\* queued, and a third schedule of that name has failed
C31_Witness ==
  \E n \in MockTaskNames :
    /\ Len(mQueued[n]) = 2 /\ mQueued[n][1] # mQueued[n][2]
    /\ Len(TrackedOf(executedTasks, n)) = 2
    /\ mLast.op \in ScheduleMethods /\ mLast.name = n /\ mLast.threw

\* ========================================================================
\* Properties of the poll loop of a worker with maxConcurrent above one
\* (C35 under SpecLoop, C36 under SpecLoopFair)
\* ========================================================================
\* C35: after dispatching an activation the worker goes on polling without
\* waiting for the handler: the step that starts the handler schedules the
\* next poll, and while the active count is below maxConcurrent a poll
\* attempt calls the native poll, and the activation it returns is accepted,
\* although earlier handlers are still running.
C35_PollsWhileHandling ==
  /\ [][(Len(acts') > Len(acts) /\ running)
          => /\ acts'[Len(acts')].pc # "done"
             /\ timers' = timers + 1 /\ pollTimer' = "pending"]_vars
  /\ []((running /\ timers > 0 /\ Unsettled # {}
           /\ activeExecutions < MaxConcurrentWide)
          => ENABLED (/\ timerFiresWith(MaxConcurrentWide)
                      /\ pollsInFlight' = pollsInFlight + 1))
  /\ []((pollsInFlight > 0 /\ Unsettled # {} /\ Len(acts) < MaxActivations)
          => ENABLED pollFetches)

\* a second activation was fetched and its handler started while the first
\* handler was still running, and the next poll is scheduled
C35_Witness ==
  /\ running /\ Cardinality(Unsettled) = 2 /\ activeExecutions = 2
  /\ pollsInFlight = 0 /\ timers = 1

\* C36: while the worker is running its poll loop never stops: a poll that
\* returned (an activation, nothing, or an error) and a cycle skipped at
\* capacity each leave the next poll scheduled, and a scheduled poll is
\* eventually attempted unless the worker is stopped first.
C36_PollLoopNeverStops ==
  /\ [](running => pollsInFlight + timers >= 1)
  /\ [][(pollsInFlight' < pollsInFlight /\ running)
          => timers' = timers + 1 /\ pollTimer' = "pending"]_vars
  /\ [][(pollTick' # pollTick /\ running' /\ activeExecutions >= MaxConcurrentWide)
          => timers' >= 1 /\ pollTimer' = "pending"]_vars
  /\ (running /\ timers > 0 /\ pollTick = 0) ~> (~running \/ pollTick = 1)
  /\ (running /\ timers > 0 /\ pollTick = 1) ~> (~running \/ pollTick = 0)

\* the worker is at capacity, its last poll() was a skipped cycle and the
\* next one is scheduled
C36_Witness ==
  /\ running /\ activeExecutions = MaxConcurrentWide /\ Len(acts) = 2
  /\ pollsInFlight = 0 /\ timers = 1 /\ pollTimer = "pending" /\ pollTick = 1

\* ========================================================================
\* Properties of client.stop() (checked under SpecShutdown)
\* ========================================================================
\* C37: client.stop() on a started client returns only when both workers
\* report zero active executions or its deadline has elapsed; it always
\* returns, also when a handler never settles; and when it has returned
\* isStarted() is false.
C37_StopDrainsOrTimesOut ==
  /\ [][(sPc # "returned" /\ sPc' = "returned")
          => \/ sActive'["workflow"] = 0 /\ sActive'["task"] = 0
             \/ sElapsed' >= StopTimeout]_vars
  /\ [](sPc = "returned" => ~started)
  /\ (sPc = "sleep") ~> (sPc = "returned")

\* stop() has returned at its deadline although a handler has not settled
C37_Witness ==
  /\ sPc = "returned" /\ sExit = "deadline" /\ ~started
  /\ sActive["workflow"] + sActive["task"] > 0

\* ========================================================================
\* Properties of a sequential handler over its activations (checked under
\* SpecSeq)
\* ========================================================================
\* C38: for a handler that awaits its operations one after another, an
\* activation whose history resolves the first k operations gives the
\* handler those k results without suspending, issues operation k+1 and, if
\* it is pending, suspends there without issuing a later operation; so a
\* suspension happens in the first n activations only and the handler of n
\* operations has completed after at most n+1 activations.
C38_SequentialReplay ==
  /\ \A k \in Yields :
       answers[yields[k].h].status = "completed" => ~yields[k].threw
  /\ \A k \in Yields :
       (yields[k].threw /\ yields[k].err.type = "WorkflowSuspended")
         => /\ k = Len(yields)
            /\ Len(ops) = yields[k].h
            /\ hstate # "running"
            /\ yields[k].h >= Activation
  /\ (hstate = "reported" /\ ctxReports[1].status = "Suspended")
       => Activation <= SeqOps

====
